---- MODULE Spec2Model ----
(***************************************************************************)
(* Model of the clusterfuc agent: Agent.Call (pkg/agent), the two provider *)
(* adapters' Body/Generate (pkg/openai, pkg/gemini), the tool wrapper      *)
(* (pkg/tool), the history stores (pkg/memoriser) and the registration of  *)
(* tools on the agents of the root package.                                *)
(*                                                                         *)
(* Strings that are concatenated (message texts, the reply) are sequences  *)
(* of characters; JSON values are records; a JSON text holding the         *)
(* encoding of a value v is the record [json |-> v].                       *)
(***************************************************************************)
EXTENDS Integers, Sequences, FiniteSets, TLC

VARIABLES
    Model,      \* Agent.Model: the provider family of the configured model
    Memoriser,  \* Agent.Memoriser: "nil", "noop" or "inmem"
    tools,      \* Agent.tools, in registration order
    history,    \* InMemoryMemoriser.history
    ctxDone,    \* whether ctx.Done() is closed
    pc,         \* position of the Call in flight
    input,      \* the AgentInput of the Call in flight
    body,       \* the request body (conversation state) Generate works on
    reply,      \* Generate's local reply
    calls,      \* Generate's local calls
    resp,       \* the response being processed
    outIx,      \* index of the next response item (OpenAI) or part (Gemini)
    candIx,     \* index of the candidate being processed (Gemini)
    toolIx,     \* index in tools of the tool being executed
    requests,   \* bodies the transport has been asked to send, this Call
    responses,  \* responses the transport has delivered, this Call
    execLog,    \* tool executions of this Call, in order
    trips,      \* responses the transport has delivered since construction
    result,     \* what the last Call returned, None when none has returned
    executables,\* OpenAIAgent.executables / Agent.Executables: name -> tool
    Functions,  \* Agent.Functions, the list ExtendAgent appends to
    op,         \* the last library operation applied outside a Call: its
                \* name, its arguments and what it returned; None when none
    mux,        \* InMemoryMemoriser.mux: the writer and the readers holding it
    procs       \* goroutines calling the store: position, id and blob of each

vars == <<Model, Memoriser, tools, history, ctxDone, pc, input, body, reply,
          calls, resp, outIx, candIx, toolIx, requests, responses, execLog, trips,
          result, executables, Functions, op, mux, procs>>

----------------------------------------------------------------------------
(* Bounds *)

MaxRounds == 2   \* responses the transport delivers
MaxItems  == 2   \* items (parts) per response
MaxTools  == 2   \* tools registered on the agent
MaxCandidates == 1  \* candidates per Gemini response

----------------------------------------------------------------------------
(* Values *)

None == [none |-> TRUE]
Null == [null |-> TRUE]
Obj(n) == [n |-> n]
Unencodable == [chan |-> TRUE]
Encode(v) == [json |-> v]

Ids == {"", "i1"}
UserInputs == {<<>>, <<"u">>}
Models == {"openai", "gemini", "other"}
\* No store, the two stores of pkg/memoriser, and an implementation of the
\* Memoriser interface whose Save stores nothing and reports false
Memorisers == {"nil", "noop", "inmem", "failing"}
Prompt == <<"p">>

Absent == [absent |-> TRUE]
EmptyBlob == [empty |-> TRUE]
\* Bytes that are no JSON text
Invalid == [invalid |-> TRUE]

SeqsUpTo(S, n) == UNION {[1..k -> S] : k \in 0..n}

----------------------------------------------------------------------------
(* pkg/tool: a registered tool and what its Execute does *)

ToolNames == {"double", "save"}

\* The wrapped function fn of a tool, applied to its decoded input. "double"
\* maps {n} to {2n}; "save" fails with "disk full" on {n:21} and returns a
\* value encoding/json cannot encode otherwise.
ToolFn(name, arg) ==
    IF name = "double" THEN [kind |-> "ok", val |-> Obj(2 * arg.n)]
    ELSE IF arg.n = 21 THEN [kind |-> "err", msg |-> "disk full"]
    ELSE [kind |-> "ok", val |-> Unencodable]

\* A JSON array, and a string that holds no JSON text
Array == [array |-> TRUE]
NotJSON == [text |-> "{"]

\* json.Unmarshal of the JSON value v into the declared input, a struct
\* with the one field n: an object decodes, a field it lacks stays zero and
\* null leaves the zero input; an array is rejected. [arg, err]
Unmarshal(v) ==
    IF "array" \in DOMAIN v
    THEN [arg |-> Null, err |-> "json: cannot unmarshal array into Go value"]
    ELSE IF "n" \in DOMAIN v THEN [arg |-> Obj(v.n), err |-> "nil"]
    ELSE [arg |-> Obj(0), err |-> "nil"]

DecodeStringsAsValues(in) ==
    IF "json" \in DOMAIN in \/ "text" \in DOMAIN in
    THEN [arg |-> Null, err |-> "json: cannot unmarshal string into Go value"]
    ELSE IF in = Unencodable THEN [arg |-> Null, err |-> "json: unsupported type"]
    ELSE Unmarshal(in)

\* The input of fn from the argument of Execute: a string is taken as the
\* JSON text it holds, any other value is encoded and decoded again
Decode(in) ==
    IF "json" \in DOMAIN in THEN Unmarshal(in.json)
    ELSE IF "text" \in DOMAIN in THEN [arg |-> Null, err |-> "invalid character"]
    ELSE IF in = Unencodable THEN [arg |-> Null, err |-> "json: unsupported type"]
    ELSE Unmarshal(in)

\* CreateTool's Executable: what it returns, and in fn the inputs fn was
\* invoked with
Execute(tool, in) ==
    LET d == Decode(in)
        o == ToolFn(tool.Name, d.arg)
    IN  IF d.err # "nil" THEN [kind |-> "err", msg |-> d.err, fn |-> <<>>]
        ELSE IF o.kind = "err" THEN [kind |-> "err", msg |-> o.msg, fn |-> <<d.arg>>]
        ELSE [kind |-> "ok", val |-> o.val, fn |-> <<d.arg>>]

CreateTool(name) == [Name |-> name]

\* First index >= from of a tool named name, 0 when there is none: the
\* position the loop "for _, tool := range tools" stops at next.
NextMatch(name, from) ==
    LET S == {j \in from..Len(tools) : tools[j].Name = name}
    IN  IF S = {} THEN 0 ELSE CHOOSE j \in S : \A k \in S : j <= k

----------------------------------------------------------------------------
(* pkg/memoriser *)

RetrieveWithoutOk(id) ==
    IF Memoriser \in {"noop", "failing"} THEN [blob |-> EmptyBlob, err |-> "nil"]
    ELSE [blob |-> IF history[id] = Absent THEN Null ELSE history[id], err |-> "nil"]

RetrieveLooksUp(id) ==
    IF history[id] = Absent THEN [blob |-> Null, err |-> "not found"]
    ELSE [blob |-> history[id], err |-> "nil"]

\* Retrieve: [blob, err]
Retrieve(id) ==
    IF Memoriser \in {"noop", "failing"} THEN [blob |-> EmptyBlob, err |-> "nil"]
    ELSE IF history[id] = Absent THEN [blob |-> Null, err |-> "not found"]
    ELSE [blob |-> history[id], err |-> "nil"]

SavedNothing(id, blob) == history

\* Save's effect on the store
Saved(id, blob) ==
    IF Memoriser = "inmem" THEN [history EXCEPT ![id] = blob] ELSE history

\* What Save reports: both stores of pkg/memoriser report true
SaveReports(id, blob) == Memoriser # "failing"

----------------------------------------------------------------------------
(* encoding/json on the two request bodies *)

\* The zero TextResponseFormatConfiguration and the zero
\* GenerationConfig: no structured output is asked for
NoFormat == [Type |-> "", Strict |-> FALSE, Schema |-> Null]
NoConfig == [Properties |-> Null, Required |-> <<>>]

MarshalOpenAIWithoutTools(b) ==
    [bytes |->
        [k \in {"model", "input"}
               \cup (IF b.Instructions = <<>> THEN {} ELSE {"instructions"})
               \cup (IF b.Text = NoFormat THEN {} ELSE {"text"}) |->
            CASE k = "model" -> b.Model
              [] k = "input" -> b.Input
              [] k = "instructions" -> b.Instructions
              [] k = "text" -> b.Text]]

\* json.Marshal(CreateResponse): model and input are always written,
\* instructions is omitempty, text and tools are omitzero.
MarshalOpenAI(b) ==
    [bytes |->
        [k \in {"model", "input"}
               \cup (IF b.Instructions = <<>> THEN {} ELSE {"instructions"})
               \cup (IF b.Text = NoFormat THEN {} ELSE {"text"})
               \cup (IF b.Tools = <<>> THEN {} ELSE {"tools"}) |->
            CASE k = "model" -> b.Model
              [] k = "input" -> b.Input
              [] k = "instructions" -> b.Instructions
              [] k = "text" -> b.Text
              [] k = "tools" -> b.Tools]]

ZeroOpenAI ==
    [Model |-> "", Instructions |-> <<>>, Text |-> NoFormat, Tools |-> <<>>, Input |-> <<>>]

\* json.Unmarshal(history, &body) into a zero CreateResponse
UnmarshalOpenAI(blob) ==
    LET j == blob.bytes
        get(k, zero) == IF k \in DOMAIN j THEN j[k] ELSE zero
    IN  [Model |-> get("model", ""), Instructions |-> get("instructions", <<>>),
         Text |-> get("text", NoFormat),
         Tools |-> get("tools", <<>>), Input |-> get("input", <<>>)]

\* A value json.Marshal rejects somewhere inside the Gemini contents
HasUnencodable(contents) ==
    \E i \in 1..Len(contents) : \E p \in 1..Len(contents[i].Parts) :
        contents[i].Parts[p].FunctionResponse.Response = Unencodable

\* json.Marshal(RequestBody): every field is omitempty or omitzero
MarshalGemini(b) ==
    [bytes |->
        [k \in (IF b.Contents = <<>> THEN {} ELSE {"contents"})
               \cup (IF b.Tools = <<>> THEN {} ELSE {"tools"})
               \cup (IF b.GenerationConfig = NoConfig THEN {} ELSE {"generationConfig"})
               \cup (IF b.SystemInstruction = <<>> THEN {} ELSE {"system_instruction"}) |->
            CASE k = "contents" -> b.Contents
              [] k = "tools" -> b.Tools
              [] k = "generationConfig" -> b.GenerationConfig
              [] k = "system_instruction" -> b.SystemInstruction]]

ZeroGemini ==
    [Contents |-> <<>>, Tools |-> <<>>, GenerationConfig |-> NoConfig,
     SystemInstruction |-> <<>>]

UnmarshalGemini(blob) ==
    LET j == blob.bytes
        get(k, zero) == IF k \in DOMAIN j THEN j[k] ELSE zero
    IN  [Contents |-> get("contents", <<>>), Tools |-> get("tools", <<>>),
         GenerationConfig |-> get("generationConfig", NoConfig),
         SystemInstruction |-> get("system_instruction", <<>>)]

----------------------------------------------------------------------------
(* Body of the two adapters: [body, err] *)

TextContent(type, text) == [type |-> type, text |-> text, refusal |-> <<>>]
Message(role, content) == [type |-> "message", role |-> role, content |-> content]

\* len(history) > 0
HasHistory(hist) == hist \notin {EmptyBlob, Null}

OpenAITurnPrepends(b, model, userInput, prompt, schema) ==
    [b EXCEPT !.Instructions = prompt,
              !.Text = IF schema # Null
                       THEN [Type |-> "json_schema", Strict |-> TRUE, Schema |-> schema]
                       ELSE @,
              !.Input = <<Message("user", <<TextContent("input_text", userInput)>>)>> \o @,
              !.Model = model]

\* Body once the history is decoded into b: instructions, schema, the user
\* turn and the model are set on it
OpenAITurn(b, model, userInput, prompt, schema) ==
    [b EXCEPT !.Instructions = prompt,
              !.Text = IF schema # Null
                       THEN [Type |-> "json_schema", Strict |-> TRUE, Schema |-> schema]
                       ELSE @,
              !.Input = Append(@, Message("user", <<TextContent("input_text", userInput)>>)),
              !.Model = model]

OpenAIBody(model, userInput, prompt, hist, schema) ==
    IF userInput = <<>>
    THEN [body |-> None, err |-> "empty user input is weird"]
    ELSE IF HasHistory(hist) /\ hist = Invalid
    THEN [body |-> None, err |-> "invalid character"]
    ELSE [body |-> OpenAITurn(IF HasHistory(hist) THEN UnmarshalOpenAI(hist) ELSE ZeroOpenAI,
                              model, userInput, prompt, schema),
          err |-> "nil"]

NoCall == [Name |-> "", Args |-> Null]
NoResponse == [Name |-> "", Response |-> Null]
TextPart(text) == [Text |-> text, FunctionCall |-> NoCall, FunctionResponse |-> NoResponse]
CallPart(name, args) ==
    [Text |-> <<>>, FunctionCall |-> [Name |-> name, Args |-> args], FunctionResponse |-> NoResponse]
ResponsePart(name, response) ==
    [Text |-> <<>>, FunctionCall |-> NoCall, FunctionResponse |-> [Name |-> name, Response |-> response]]
Content(role, parts) == [Role |-> role, Parts |-> parts]

\* Body once the history is decoded into b: the prompt, the user turn and
\* the schema's properties and required are set on it
GeminiTurn(b, userInput, prompt, schema) ==
    [b EXCEPT !.SystemInstruction = prompt,
              !.Contents = Append(@, Content("user", <<TextPart(userInput)>>)),
              !.GenerationConfig = IF schema # Null
                                   THEN [Properties |-> schema.json.properties,
                                         Required |-> schema.json.required]
                                   ELSE @]

GeminiBody(userInput, prompt, hist, schema) ==
    IF userInput = <<>>
    THEN [body |-> None, err |-> "empty user input is weird"]
    ELSE IF HasHistory(hist) /\ hist = Invalid
    THEN [body |-> None, err |-> "invalid character"]
    ELSE [body |-> GeminiTurn(IF HasHistory(hist) THEN UnmarshalGemini(hist) ELSE ZeroGemini,
                              userInput, prompt, schema),
          err |-> "nil"]

----------------------------------------------------------------------------
(* What the providers may answer. A slice a response may leave nil comes   *)
(* with a flag saying so.                                                  *)

OutputText(text) == TextContent("output_text", text)
Refusal == [type |-> "output_text", text |-> <<>>, refusal |-> <<"n", "o">>]
FunctionToolCall(id, name, args) ==
    [type |-> "function_call", call_id |-> id, name |-> name, arguments |-> Encode(args)]
FunctionToolCallOutput(id, output) ==
    [type |-> "function_call_output", call_id |-> id, output |-> output]

OpenAIItems ==
    { Message("assistant", <<OutputText(<<"a">>)>>),
      Message("assistant", <<OutputText(<<"b">>), OutputText(<<"c">>)>>),
      Message("assistant", <<Refusal>>),
      FunctionToolCall("c1", "double", Obj(21)),
      FunctionToolCall("c2", "save", Obj(21)),
      FunctionToolCall("c3", "save", Obj(0)),
      [type |-> "reasoning"] }

OpenAIResponses ==
    {[Status |-> "failed", Output |-> <<>>, OutputNil |-> TRUE]} \cup
    [Status : {"completed", "incomplete"}, Output : SeqsUpTo(OpenAIItems, MaxItems),
     OutputNil : {FALSE}]

GeminiParts ==
    { TextPart(<<"a">>), TextPart(<<"b">>),
      CallPart("double", Obj(21)), CallPart("save", Obj(21)), CallPart("save", Obj(0)) }

RECURSIVE SumLen(_)
SumLen(cs) == IF cs = <<>> THEN 0 ELSE Len(Head(cs).Content.Parts) + SumLen(Tail(cs))

GeminiResponses ==
    {[Candidates |-> <<>>, CandidatesNil |-> TRUE]} \cup
    {[Candidates |-> cs, CandidatesNil |-> FALSE] :
        cs \in {c \in SeqsUpTo([Content : {Content("model", ps) : ps \in SeqsUpTo(GeminiParts, MaxItems)}],
                               MaxCandidates) : SumLen(c) <= MaxItems}}

----------------------------------------------------------------------------
(* State after construction: NewAgent leaves tools empty *)

\* The goroutines that call one store at the same time
MaxProcs == 3
Procs == 1..MaxProcs

\* sync.RWMutex, nobody holding it: writer is the goroutine inside Lock..Unlock
\* (0 when none), readers the goroutines inside RLock..RUnlock
Unlocked == [writer |-> 0, readers |-> {}]

\* A goroutine that is in no call of the store
Idle == [pc |-> "idle", id |-> "", blob |-> EmptyBlob]

NoInput == [Id |-> "", UserInput |-> <<>>, Schema |-> Null]

\* A fresh agent and store, no Call made, no operation applied
Constructed ==
    /\ tools = <<>>
    /\ history = [i \in Ids |-> Absent]
    /\ ctxDone = FALSE
    /\ pc = "idle"
    /\ input = NoInput
    /\ body = None
    /\ reply = <<>>
    /\ calls = FALSE
    /\ resp = None
    /\ outIx = 0
    /\ candIx = 0
    /\ toolIx = 0
    /\ requests = <<>>
    /\ responses = <<>>
    /\ execLog = <<>>
    /\ trips = 0
    /\ result = None
    /\ executables = <<>>
    /\ Functions = <<>>
    /\ op = None
    /\ mux = Unlocked
    /\ procs = [p \in Procs |-> Idle]

Init ==
    /\ Model \in Models
    /\ Memoriser \in Memorisers
    /\ Constructed

\* What no step of a Call changes
cfgVars == <<Model, Memoriser, executables, Functions, op, mux, procs>>
\* What a Call works on
callVars == <<ctxDone, pc, input, body, reply, calls, resp, outIx, candIx, toolIx,
              requests, responses, execLog, trips, result>>
loopVars == <<reply, calls, resp, outIx, candIx, toolIx>>
logVars == <<requests, responses, execLog, trips>>

----------------------------------------------------------------------------
(* Operations on the agent between Calls *)

\* Between Calls nothing of the last Call is left but the store's content
Forget ==
    /\ pc = "idle"
    /\ pc' = "idle"
    /\ ctxDone' = FALSE
    /\ input' = NoInput
    /\ body' = None
    /\ reply' = <<>>
    /\ calls' = FALSE
    /\ resp' = None
    /\ outIx' = 0
    /\ candIx' = 0
    /\ toolIx' = 0
    /\ requests' = <<>>
    /\ responses' = <<>>
    /\ execLog' = <<>>
    /\ result' = None
    /\ UNCHANGED <<cfgVars, trips>>

\* Agent.AddTool: appends, whatever is registered already
AddTool(tool) ==
    /\ Forget
    /\ tools' = Append(tools, tool)
    /\ UNCHANGED history

\* InMemoryMemoriser.Save called by the application, here with an empty blob
Save(id, blob) ==
    /\ Forget
    /\ Memoriser = "inmem"
    /\ history[id] = Absent
    /\ history' = [history EXCEPT ![id] = blob]
    /\ UNCHANGED tools

\* The owner of ctx cancels it (or its deadline passes) while a Call runs
Cancel ==
    /\ pc # "idle"
    /\ ~ctxDone
    /\ ctxDone' = TRUE
    /\ UNCHANGED <<cfgVars, tools, history, pc, input, body, loopVars, logVars, result>>

----------------------------------------------------------------------------
(* Agent.Call *)

\* What every Call starts from: its own arguments and empty logs
Enter(in) ==
    /\ pc = "idle"
    /\ input' = in
    /\ ctxDone' = FALSE
    /\ requests' = <<>>
    /\ responses' = <<>>
    /\ execLog' = <<>>
    /\ reply' = <<>>
    /\ calls' = FALSE
    /\ resp' = None
    /\ outIx' = 0
    /\ candIx' = 0
    /\ toolIx' = 0
    /\ UNCHANGED <<cfgVars, tools, trips>>

\* Call returns (output, err)
Return(out, err) ==
    /\ result' = [Output |-> out, err |-> err]
    /\ pc' = "idle"

ValidateIdFirst(in) ==
    IF in.Id = "" THEN "ErrInvalidId"
    ELSE IF Memoriser = "nil" THEN "ErrNilMemoriser"
    ELSE IF in.UserInput = <<>> THEN "ErrInvalidUserInput"
    ELSE "nil"

ValidateWithoutId(in) ==
    IF Memoriser = "nil" THEN "ErrNilMemoriser"
    ELSE IF in.UserInput = <<>> THEN "ErrInvalidUserInput"
    ELSE "nil"

\* The checks Call starts with, in the order it makes them
Validate(in) ==
    IF Memoriser = "nil" THEN "ErrNilMemoriser"
    ELSE IF in.Id = "" THEN "ErrInvalidId"
    ELSE IF in.UserInput = <<>> THEN "ErrInvalidUserInput"
    ELSE "nil"

Valid(in) == Validate(in) = "nil"

\* A check fails: Call returns its error
CallRejects(in) ==
    /\ Enter(in)
    /\ ~Valid(in)
    /\ Return(<<>>, Validate(in))
    /\ body' = None
    /\ UNCHANGED history

CallRetrieveFails(in) ==
    /\ Enter(in)
    /\ Valid(in)
    /\ Retrieve(in.Id).err # "nil"
    /\ Return(<<>>, "failed to retrieve history")
    /\ body' = None
    /\ UNCHANGED history

\* Neither type assertion on a.Model succeeds: both branches are skipped
CallUnmatched(in) ==
    /\ Enter(in)
    /\ Valid(in)
    /\ Retrieve(in.Id).err = "nil"
    /\ Model \notin {"gemini", "openai"}
    /\ Return(<<>>, "nil")
    /\ body' = None
    /\ UNCHANGED history

Body(in, hist) ==
    IF Model = "gemini"
    THEN GeminiBody(in.UserInput, Prompt, hist, in.Schema)
    ELSE OpenAIBody("gpt-4o", in.UserInput, Prompt, hist, in.Schema)

\* The state is retrieved and the adapter builds the body; Generate is
\* entered unless Body failed
CallBody(in) ==
    /\ Enter(in)
    /\ Valid(in)
    /\ Retrieve(in.Id).err = "nil"
    /\ Model \in {"gemini", "openai"}
    /\ LET b == Body(in, Retrieve(in.Id).blob)
       IN  IF b.err # "nil"
           THEN /\ Return(<<>>, b.err)
                /\ body' = None
           ELSE /\ body' = b.body
                /\ pc' = "generate"
                /\ result' = None
    /\ UNCHANGED history

OutputOnErrorIsReply(output, res) == res

\* Call's return value when Generate returned (nil, res, err): the output
\* declared before the branches, which nothing has written yet
OutputOnError(output, res) == output

\* Generate returned an error: Call returns it
FailSaves(res, err) ==
    /\ Return(OutputOnError(<<>>, res), err)
    /\ history' = Saved(input.Id, EmptyBlob)

Fail(res, err) ==
    /\ Return(OutputOnError(<<>>, res), err)
    /\ UNCHANGED history

Marshal(b) == IF Model = "gemini" THEN MarshalGemini(b) ELSE MarshalOpenAI(b)

\* json.Marshal(body) of the final state fails
StateMarshalFails(b) == Model = "gemini" /\ HasUnencodable(b.Contents)

PersistErrorSurfaced(marshalled, saved) ==
    IF marshalled /\ saved THEN "nil" ELSE "failed to save updated state"

\* Call's error once Generate has succeeded, given whether the state could
\* be encoded and what Save reported: either failure is logged, no more
PersistError(marshalled, saved) == "nil"

\* Generate returned (body, res, nil): the state is saved, the answer returned
Succeed(b, res) ==
    /\ history' = IF StateMarshalFails(b) THEN history ELSE Saved(input.Id, Marshal(b))
    /\ Return(res, PersistError(~StateMarshalFails(b), SaveReports(input.Id, Marshal(b))))

----------------------------------------------------------------------------
(* Generate, both adapters: the start of one round *)

FunctionTool(tool) == [Type |-> "function", Name |-> tool.Name]
FunctionDeclaration(tool) == [Name |-> tool.Name, Description |-> tool.Name]

WithToolsAppended(b) ==
    IF Model = "gemini"
    THEN [b EXCEPT !.Tools = <<[FunctionDeclarations |->
                                  [i \in 1..Len(tools) |-> FunctionDeclaration(tools[i])]]>>]
    ELSE [b EXCEPT !.Tools = @ \o [i \in 1..Len(tools) |-> FunctionTool(tools[i])]]

WithToolsRebuilt(b) ==
    IF Model = "gemini"
    THEN [b EXCEPT !.Tools = <<[FunctionDeclarations |->
                                  [i \in 1..Len(tools) |-> FunctionDeclaration(tools[i])]]>>]
    ELSE [b EXCEPT !.Tools = [i \in 1..Len(tools) |-> FunctionTool(tools[i])]]

\* "Set our tools on our body": only when the body carries none
WithTools(b) ==
    IF b.Tools # <<>> THEN b
    ELSE IF Model = "gemini"
    THEN [b EXCEPT !.Tools = <<[FunctionDeclarations |->
                                  [i \in 1..Len(tools) |-> FunctionDeclaration(tools[i])]]>>]
    ELSE [b EXCEPT !.Tools = [i \in 1..Len(tools) |-> FunctionTool(tools[i])]]

\* json.Marshal of the outgoing body fails (generateContent)
MarshalFails(b) == Model = "gemini" /\ HasUnencodable(b.Contents)

DoneIgnored == FALSE

\* Whether the select finds ctx.Done() ready
Done == ctxDone

\* case <-ctx.Done(): nothing is sent
GenerateCancelled ==
    /\ pc = "generate"
    /\ Done
    /\ body' = WithTools(body)
    /\ reply' = <<>>
    /\ calls' = FALSE
    /\ Fail(<<>>, "context canceled")
    /\ UNCHANGED <<cfgVars, tools, ctxDone, input, resp, outIx, candIx, toolIx, logVars>>

\* default: but the body cannot be encoded, nothing is sent
GenerateMarshalFails ==
    /\ pc = "generate"
    /\ ~Done
    /\ MarshalFails(body)
    /\ body' = WithTools(body)
    /\ reply' = <<>>
    /\ calls' = FALSE
    /\ Fail(<<>>, "json: unsupported type")
    /\ UNCHANGED <<cfgVars, tools, ctxDone, input, resp, outIx, candIx, toolIx, logVars>>

GenerateSendKeepsReply ==
    /\ pc = "generate"
    /\ ~Done
    /\ ~MarshalFails(body)
    /\ body' = WithTools(body)
    /\ calls' = FALSE
    /\ requests' = Append(requests, WithTools(body))
    /\ pc' = "awaiting"
    /\ UNCHANGED <<cfgVars, tools, history, ctxDone, input, reply, resp, outIx, candIx, toolIx,
                   responses, execLog, trips, result>>

\* default: the body goes to the transport
GenerateSend ==
    /\ pc = "generate"
    /\ ~Done
    /\ ~MarshalFails(body)
    /\ body' = WithTools(body)
    /\ reply' = <<>>
    /\ calls' = FALSE
    /\ requests' = Append(requests, WithTools(body))
    /\ pc' = "awaiting"
    /\ UNCHANGED <<cfgVars, tools, history, ctxDone, input, resp, outIx, candIx, toolIx,
                   responses, execLog, trips, result>>

TransportRetried ==
    /\ pc = "awaiting"
    /\ pc' = "generate"
    /\ UNCHANGED <<cfgVars, tools, history, ctxDone, input, body, loopVars, logVars, result>>

\* client.Do fails, or the status is not 200, or the response cannot be decoded
TransportFails ==
    /\ pc = "awaiting"
    /\ Fail(<<>>, "transport")
    /\ UNCHANGED <<cfgVars, tools, ctxDone, input, body, loopVars, logVars>>

\* createResponse / generateContent returns a decoded response
Respond(r) ==
    /\ pc = "awaiting"
    /\ trips < MaxRounds
    /\ trips' = trips + 1
    /\ resp' = r
    /\ responses' = Append(responses, r)
    /\ outIx' = IF Model = "gemini" THEN 0 ELSE 1
    /\ candIx' = 1
    /\ pc' = "processing"
    /\ UNCHANGED <<cfgVars, tools, history, ctxDone, input, body, reply, calls, toolIx,
                   requests, execLog, result>>

----------------------------------------------------------------------------
(* OpenAI.Generate: the response's output, item by item *)

RECURSIVE ConcatReversed(_)
ConcatReversed(texts) ==
    IF texts = <<>> THEN <<>> ELSE ConcatReversed(Tail(texts)) \o Head(texts)

RECURSIVE Concat(_)
Concat(texts) == IF texts = <<>> THEN <<>> ELSE Head(texts) \o Concat(Tail(texts))

errorResponseSuccess(message) == Encode([success |-> TRUE, reason |-> message])

\* errorResponse: the JSON text of {success:false, reason:message}
errorResponse(message) == Encode([success |-> FALSE, reason |-> message])

OpenAIProcessing == pc = "processing" /\ Model = "openai"
OpenAIItem == resp.Output[outIx]
OpenAIHasItem == OpenAIProcessing /\ ~resp.OutputNil /\ outIx <= Len(resp.Output)

\* resp.Output == nil
OpenAIInvalidOutput ==
    /\ OpenAIProcessing
    /\ resp.OutputNil
    /\ Fail(<<>>, "invalid output")
    /\ UNCHANGED <<cfgVars, tools, ctxDone, input, body, loopVars, logVars>>

\* case "message", a content that is no output_text or carries a refusal
OpenAIMessageRejected ==
    /\ OpenAIHasItem
    /\ OpenAIItem.type = "message"
    /\ \E i \in 1..Len(OpenAIItem.content) :
          \/ OpenAIItem.content[i].type # "output_text"
          \/ OpenAIItem.content[i].refusal # <<>>
    /\ body' = [body EXCEPT !.Input = Append(@, OpenAIItem)]
    /\ Fail(<<>>, "refusal encountered")
    /\ UNCHANGED <<cfgVars, tools, ctxDone, input, loopVars, logVars>>

OpenAIMessagePrepended ==
    /\ OpenAIHasItem
    /\ OpenAIItem.type = "message"
    /\ \A i \in 1..Len(OpenAIItem.content) :
          /\ OpenAIItem.content[i].type = "output_text"
          /\ OpenAIItem.content[i].refusal = <<>>
    /\ body' = [body EXCEPT !.Input = <<OpenAIItem>> \o @]
    /\ reply' = reply \o Concat([i \in 1..Len(OpenAIItem.content) |-> OpenAIItem.content[i].text])
    /\ outIx' = outIx + 1
    /\ UNCHANGED <<cfgVars, tools, history, ctxDone, pc, input, calls, resp, candIx, toolIx,
                   logVars, result>>

\* case "message": kept in the body, its texts added to reply
OpenAIMessage ==
    /\ OpenAIHasItem
    /\ OpenAIItem.type = "message"
    /\ \A i \in 1..Len(OpenAIItem.content) :
          /\ OpenAIItem.content[i].type = "output_text"
          /\ OpenAIItem.content[i].refusal = <<>>
    /\ body' = [body EXCEPT !.Input = Append(@, OpenAIItem)]
    /\ reply' = reply \o Concat([i \in 1..Len(OpenAIItem.content) |-> OpenAIItem.content[i].text])
    /\ outIx' = outIx + 1
    /\ UNCHANGED <<cfgVars, tools, history, ctxDone, pc, input, calls, resp, candIx, toolIx,
                   logVars, result>>

Execution(j, name, args) == [tool |-> j, name |-> name, args |-> args, round |-> Len(requests)]

OpenAIFunctionCallAnswered ==
    /\ OpenAIHasItem
    /\ OpenAIItem.type = "function_call"
    /\ LET j == NextMatch(OpenAIItem.name, 1)
       IN  IF j = 0
           THEN /\ body' = [body EXCEPT !.Input =
                               @ \o <<OpenAIItem,
                                      FunctionToolCallOutput(OpenAIItem.call_id,
                                                             errorResponse(<<"unknown tool">>))>>]
                /\ calls' = TRUE
                /\ outIx' = outIx + 1
                /\ UNCHANGED <<pc, toolIx, execLog>>
           ELSE /\ body' = [body EXCEPT !.Input = Append(@, OpenAIItem)]
                /\ pc' = "executing"
                /\ toolIx' = j
                /\ execLog' = Append(execLog, Execution(j, OpenAIItem.name, OpenAIItem.arguments))
                /\ UNCHANGED <<calls, outIx>>
    /\ UNCHANGED <<cfgVars, tools, history, ctxDone, input, reply, resp, candIx,
                   requests, responses, trips, result>>

\* case "function_call": kept in the body; the first tool of that name, if
\* any, is executed
OpenAIFunctionCall ==
    /\ OpenAIHasItem
    /\ OpenAIItem.type = "function_call"
    /\ body' = [body EXCEPT !.Input = Append(@, OpenAIItem)]
    /\ LET j == NextMatch(OpenAIItem.name, 1)
       IN  IF j = 0
           THEN /\ calls' = TRUE
                /\ outIx' = outIx + 1
                /\ UNCHANGED <<pc, toolIx, execLog>>
           ELSE /\ pc' = "executing"
                /\ toolIx' = j
                /\ execLog' = Append(execLog, Execution(j, OpenAIItem.name, OpenAIItem.arguments))
                /\ UNCHANGED <<calls, outIx>>
    /\ UNCHANGED <<cfgVars, tools, history, ctxDone, input, reply, resp, candIx,
                   requests, responses, trips, result>>

OpenAIUnmatchedTypeSkipped ==
    /\ OpenAIHasItem
    /\ OpenAIItem.type \notin {"message", "function_call"}
    /\ outIx' = outIx + 1
    /\ UNCHANGED <<cfgVars, tools, history, ctxDone, pc, input, body, reply, calls, resp,
                   candIx, toolIx, logVars, result>>

\* default: an item of another type
OpenAIUnmatchedType ==
    /\ OpenAIHasItem
    /\ OpenAIItem.type \notin {"message", "function_call"}
    /\ Fail(<<>>, "unmatched idk")
    /\ UNCHANGED <<cfgVars, tools, ctxDone, input, body, loopVars, logVars>>

\* The loop over tools goes on after tool toolIx: the next tool of that
\* name is executed, or the item is done
NextTool(name, args) ==
    LET j == NextMatch(name, toolIx + 1)
    IN  IF j = 0
        THEN /\ calls' = TRUE
             /\ outIx' = outIx + 1
             /\ toolIx' = 0
             /\ pc' = "processing"
             /\ UNCHANGED execLog
        ELSE /\ toolIx' = j
             /\ execLog' = Append(execLog, Execution(j, name, args))
             /\ UNCHANGED <<calls, outIx, pc>>

OpenAIToolOutputDropped(call, out) == <<>>

OpenAIToolOutputByName(call, out) ==
    IF out.kind = "err"
    THEN <<FunctionToolCallOutput(call.name, errorResponse(out.msg))>>
    ELSE <<FunctionToolCallOutput(call.name, Encode(out.val))>>

\* What the loop appends for a tool that returned (result, err)
OpenAIToolOutput(call, out) ==
    IF out.kind = "err"
    THEN <<FunctionToolCallOutput(call.call_id, errorResponse(out.msg))>>
    ELSE <<FunctionToolCallOutput(call.call_id, Encode(out.val))>>

OpenAIExecuteReturnsUnlessDone ==
    /\ pc = "executing"
    /\ Model = "openai"
    /\ LET out == Execute(tools[toolIx], OpenAIItem.arguments)
       IN  /\ ~(out.kind = "ok" /\ out.val = Unencodable)
           /\ IF ctxDone
              THEN /\ Fail(<<>>, "context canceled")
                   /\ UNCHANGED <<body, loopVars, execLog>>
              ELSE /\ body' = [body EXCEPT !.Input = @ \o OpenAIToolOutput(OpenAIItem, out)]
                   /\ NextTool(OpenAIItem.name, OpenAIItem.arguments)
                   /\ UNCHANGED <<history, reply, resp, candIx, result>>
    /\ UNCHANGED <<cfgVars, tools, ctxDone, input, requests, responses, trips>>

\* tool.Executable.Execute returns and its result can be encoded
OpenAIExecuteReturns ==
    /\ pc = "executing"
    /\ Model = "openai"
    /\ LET out == Execute(tools[toolIx], OpenAIItem.arguments)
       IN  /\ ~(out.kind = "ok" /\ out.val = Unencodable)
           /\ body' = [body EXCEPT !.Input = @ \o OpenAIToolOutput(OpenAIItem, out)]
    /\ NextTool(OpenAIItem.name, OpenAIItem.arguments)
    /\ UNCHANGED <<cfgVars, tools, history, ctxDone, input, reply, resp, candIx,
                   requests, responses, trips, result>>

\* tool.Executable.Execute returns a result json.Marshal rejects
OpenAIEncodeFails ==
    /\ pc = "executing"
    /\ Model = "openai"
    /\ LET out == Execute(tools[toolIx], OpenAIItem.arguments)
       IN  out.kind = "ok" /\ out.val = Unencodable
    /\ Fail(reply, "failed to encode results into json")
    /\ UNCHANGED <<cfgVars, tools, ctxDone, input, body, loopVars, logVars>>

OpenAIResendOnCalls == calls

OpenAIResendBounded == (calls \/ resp.Status # "completed") /\ Len(requests) < MaxRounds

\* if calls || resp.Status != "completed"
OpenAIResend == calls \/ resp.Status # "completed"

OpenAIAgainEarly ==
    /\ OpenAIProcessing
    /\ ~resp.OutputNil
    /\ OpenAIResend
    /\ pc' = "generate"
    /\ UNCHANGED <<cfgVars, tools, history, ctxDone, input, body, loopVars, logVars, result>>

\* The output is exhausted and the response is not final: Generate calls itself
OpenAIAgain ==
    /\ OpenAIProcessing
    /\ ~resp.OutputNil
    /\ outIx > Len(resp.Output)
    /\ OpenAIResend
    /\ pc' = "generate"
    /\ UNCHANGED <<cfgVars, tools, history, ctxDone, input, body, loopVars, logVars, result>>

\* The output is exhausted and the response is final
OpenAICompleted ==
    /\ OpenAIProcessing
    /\ ~resp.OutputNil
    /\ outIx > Len(resp.Output)
    /\ ~OpenAIResend
    /\ Succeed(body, reply)
    /\ UNCHANGED <<cfgVars, tools, ctxDone, input, body, loopVars, logVars>>

----------------------------------------------------------------------------
(* Gemini.Generate: the response's candidates, part by part *)

GeminiProcessing == pc = "processing" /\ Model = "gemini"
GeminiHasCandidate == GeminiProcessing /\ ~resp.CandidatesNil /\ candIx <= Len(resp.Candidates)
CandidateParts == resp.Candidates[candIx].Content.Parts
GeminiPart == CandidateParts[outIx]
GeminiHasPart == GeminiHasCandidate /\ outIx >= 1 /\ outIx <= Len(CandidateParts)

\* resp.Candidates == nil
GeminiInvalidOutput ==
    /\ GeminiProcessing
    /\ resp.CandidatesNil
    /\ Fail(<<>>, "invalid output")
    /\ UNCHANGED <<cfgVars, tools, ctxDone, input, body, loopVars, logVars>>

\* The next candidate's content is kept in the body
GeminiCandidate ==
    /\ GeminiHasCandidate
    /\ outIx = 0
    /\ body' = [body EXCEPT !.Contents = Append(@, resp.Candidates[candIx].Content)]
    /\ outIx' = 1
    /\ UNCHANGED <<cfgVars, tools, history, ctxDone, pc, input, reply, calls, resp, candIx,
                   toolIx, logVars, result>>

\* A part without a function call: its text is added to reply
GeminiText ==
    /\ GeminiHasPart
    /\ GeminiPart.FunctionCall.Name = ""
    /\ reply' = reply \o GeminiPart.Text
    /\ outIx' = outIx + 1
    /\ UNCHANGED <<cfgVars, tools, history, ctxDone, pc, input, body, calls, resp, candIx,
                   toolIx, logVars, result>>

\* A function call part: the first tool of that name, if any, is executed
GeminiFunctionCall ==
    /\ GeminiHasPart
    /\ GeminiPart.FunctionCall.Name # ""
    /\ calls' = TRUE
    /\ LET j == NextMatch(GeminiPart.FunctionCall.Name, 1)
       IN  IF j = 0
           THEN /\ outIx' = outIx + 1
                /\ UNCHANGED <<pc, toolIx, execLog>>
           ELSE /\ pc' = "executing"
                /\ toolIx' = j
                /\ execLog' = Append(execLog, Execution(j, GeminiPart.FunctionCall.Name,
                                                        GeminiPart.FunctionCall.Args))
                /\ UNCHANGED outIx
    /\ UNCHANGED <<cfgVars, tools, history, ctxDone, input, body, reply, resp, candIx,
                   requests, responses, trips, result>>

FailureResponse(message) == [success |-> FALSE, failureReason |-> message]

\* What the loop appends for a tool that returned (out, err): on an error
\* the failure, and in every case the response holding out
GeminiToolOutput(name, out) ==
    IF out.kind = "err"
    THEN <<Content("user", <<ResponsePart(name, FailureResponse(out.msg))>>),
           Content("user", <<ResponsePart(name, Null)>>)>>
    ELSE <<Content("user", <<ResponsePart(name, out.val)>>)>>

\* tool.Executable.Execute returns
GeminiExecuteReturns ==
    /\ pc = "executing"
    /\ Model = "gemini"
    /\ LET out == Execute(tools[toolIx], GeminiPart.FunctionCall.Args)
       IN  body' = [body EXCEPT !.Contents = @ \o GeminiToolOutput(GeminiPart.FunctionCall.Name, out)]
    /\ NextTool(GeminiPart.FunctionCall.Name, GeminiPart.FunctionCall.Args)
    /\ UNCHANGED <<cfgVars, tools, history, ctxDone, input, reply, resp, candIx,
                   requests, responses, trips, result>>

\* The candidate's parts are exhausted
GeminiNextCandidate ==
    /\ GeminiHasCandidate
    /\ outIx > Len(CandidateParts)
    /\ candIx' = candIx + 1
    /\ outIx' = 0
    /\ UNCHANGED <<cfgVars, tools, history, ctxDone, pc, input, body, reply, calls, resp,
                   toolIx, logVars, result>>

GeminiResendOnExecution == calls /\ execLog # <<>>

\* if calls
GeminiResend == calls

\* The candidates are exhausted and a part was a function call: Generate calls itself
GeminiAgain ==
    /\ GeminiProcessing
    /\ ~resp.CandidatesNil
    /\ candIx > Len(resp.Candidates)
    /\ GeminiResend
    /\ pc' = "generate"
    /\ UNCHANGED <<cfgVars, tools, history, ctxDone, input, body, loopVars, logVars, result>>

\* The candidates are exhausted and no part was a function call
GeminiCompleted ==
    /\ GeminiProcessing
    /\ ~resp.CandidatesNil
    /\ candIx > Len(resp.Candidates)
    /\ ~GeminiResend
    /\ Succeed(body, reply)
    /\ UNCHANGED <<cfgVars, tools, ctxDone, input, body, loopVars, logVars>>

----------------------------------------------------------------------------
(* The specification *)

Inputs == [Id : Ids, UserInput : UserInputs, Schema : {Null}]

Next ==
    \/ \E n \in ToolNames : Len(tools) < MaxTools /\ AddTool(CreateTool(n))
    \/ \E id \in Ids \ {""} : Save(id, EmptyBlob)
    \/ Cancel
    \/ \E in \in Inputs :
          \/ CallRejects(in)
          \/ CallRetrieveFails(in)
          \/ CallUnmatched(in)
          \/ CallBody(in)
    \/ GenerateCancelled
    \/ GenerateMarshalFails
    \/ GenerateSend
    \/ TransportFails
    \/ \E r \in (IF Model = "gemini" THEN GeminiResponses ELSE OpenAIResponses) : Respond(r)
    \/ OpenAIInvalidOutput
    \/ OpenAIMessageRejected
    \/ OpenAIMessage
    \/ OpenAIFunctionCall
    \/ OpenAIUnmatchedType
    \/ OpenAIExecuteReturns
    \/ OpenAIEncodeFails
    \/ OpenAIAgain
    \/ OpenAICompleted
    \/ GeminiInvalidOutput
    \/ GeminiCandidate
    \/ GeminiText
    \/ GeminiFunctionCall
    \/ GeminiExecuteReturns
    \/ GeminiNextCandidate
    \/ GeminiAgain
    \/ GeminiCompleted

Spec == Init /\ [][Next]_vars

----------------------------------------------------------------------------
(* Registration of tools: Register of the root package's agents, ExtendAgent *)
(* and AddTool, applied in any order                                         *)

MAX_TOOLS_COUMT == 10

MaxNames == 12   \* distinct tool names offered to Register
MaxAdded == 11   \* tools AddTool is given

\* The i-th distinct tool name
RegNames == 1..MaxNames

\* The operation returns ret
Returns(name, args, ret) == op' = [name |-> name, args |-> args, ret |-> ret]

RegisterOverwrites(name) ==
    IF Cardinality(DOMAIN executables) > MAX_TOOLS_COUMT
    THEN "ErrExceededMaxToolCount"
    ELSE "nil"

\* The error Register returns: the count is checked first, then the name
RegisterError(name) ==
    IF Cardinality(DOMAIN executables) > MAX_TOOLS_COUMT
    THEN "ErrExceededMaxToolCount"
    ELSE IF name \in DOMAIN executables THEN "ErrToolAlreadyExists"
    ELSE "nil"

\* OpenAIAgent.Register / Agent.Register on an agent whose map is made
Register(name, tool) ==
    /\ Returns("Register", [name |-> name, tool |-> tool], RegisterError(name))
    /\ executables' = IF RegisterError(name) = "nil"
                      THEN [n \in DOMAIN executables \cup {name} |->
                               IF n = name THEN tool ELSE executables[n]]
                      ELSE executables
    /\ UNCHANGED <<Model, Memoriser, Functions, tools, history, callVars, mux, procs>>

\* ExtendAgent: the function is wrapped and appended unless the list is full
ExtendAgent(fnName) ==
    /\ Returns("ExtendAgent", [name |-> fnName],
               IF Len(Functions) >= MAX_TOOLS_COUMT THEN "ErrExceededMaxToolCount" ELSE "nil")
    /\ Functions' = IF Len(Functions) >= MAX_TOOLS_COUMT
                    THEN Functions
                    ELSE Append(Functions, [Name |-> fnName])
    /\ UNCHANGED <<Model, Memoriser, executables, tools, history, callVars, mux, procs>>

RegistrationInit ==
    /\ Model = "openai"
    /\ Memoriser = "noop"
    /\ Constructed

\* Names are registered in their order; a name registered already is
\* offered again with another function
RegistrationNext ==
    \/ \E n \in RegNames :
          /\ n = Cardinality(DOMAIN executables) + 1
          /\ Register(n, "f")
    \/ \E n \in DOMAIN executables : Register(n, "g")
    \/ ExtendAgent("double")
    \/ Len(tools) < MaxAdded /\ AddTool(CreateTool("double"))

RegistrationSpec == RegistrationInit /\ [][RegistrationNext]_vars

----------------------------------------------------------------------------
(* Body, applied to histories it has produced itself and to other blobs *)

MaxTurns == 3   \* turns in a history handed to Body

Schema == Encode([properties |-> [answer |-> "string"], required |-> <<"answer">>])
Schemas == {Null, Schema}

BodyCall(in, hist) ==
    /\ Returns("Body", [in |-> in, hist |-> hist], Body(in, hist))
    /\ UNCHANGED <<Model, Memoriser, executables, Functions, tools, history, callVars, mux, procs>>

\* The state Body last returned, as Call would have saved it, with or
\* without the declarations Generate sets
Produced ==
    IF op # None /\ op.ret.err = "nil" /\ Len(IF Model = "gemini" THEN op.ret.body.Contents
                                                ELSE op.ret.body.Input) < MaxTurns
    THEN {Marshal(op.ret.body), Marshal(WithTools(op.ret.body))}
    ELSE {}

BodyInit ==
    /\ Model \in {"openai", "gemini"}
    /\ Memoriser = "noop"
    /\ Constructed

BodyNext ==
    \/ \E n \in ToolNames : Len(tools) < MaxTools /\ op = None /\ AddTool(CreateTool(n))
    \/ \E u \in UserInputs \cup {<<"v">>}, s \in Schemas :
        \E hist \in {EmptyBlob, Null, Invalid} \cup Produced :
            BodyCall([Id |-> "i1", UserInput |-> u, Schema |-> s], hist)

BodySpec == BodyInit /\ [][BodyNext]_vars

----------------------------------------------------------------------------
(* Execute of a tool made by CreateTool, applied to arguments of all kinds *)

MaxArg == 24   \* the largest n among the arguments

\* Objects {n}, an object without n, an array, null, a value that cannot be
\* encoded; strings holding the JSON text of the first four, and one that
\* holds none
Arguments ==
    LET values == {Obj(n) : n \in 0..MaxArg} \cup {[m |-> 1], Array, Null}
    IN  values \cup {Encode(v) : v \in values} \cup {Unencodable, NotJSON}

ToolExecute(tool, in) ==
    /\ Returns("Execute", [tool |-> tool, in |-> in], Execute(tool, in))
    /\ UNCHANGED <<Model, Memoriser, executables, Functions, tools, history, callVars, mux, procs>>

ToolInit ==
    /\ Model = "openai"
    /\ Memoriser = "noop"
    /\ Constructed

ToolNext == \E n \in ToolNames, in \in Arguments : ToolExecute(CreateTool(n), in)

ToolSpec == ToolInit /\ [][ToolNext]_vars

----------------------------------------------------------------------------
(* The stores of pkg/memoriser, called one operation after the other *)

MaxBlobs == 4   \* distinct non-empty blobs handed to Save

Blobs == {EmptyBlob} \cup {[raw |-> n] : n \in 1..MaxBlobs}

\* Memoriser.Save(id, latest)
MemoriserSave(id, blob) ==
    /\ Returns("Save", [id |-> id, blob |-> blob], SaveReports(id, blob))
    /\ history' = Saved(id, blob)
    /\ UNCHANGED <<Model, Memoriser, executables, Functions, tools, callVars, mux, procs>>

\* Memoriser.Retrieve(id)
MemoriserRetrieve(id) ==
    /\ Returns("Retrieve", [id |-> id], Retrieve(id))
    /\ UNCHANGED <<Model, Memoriser, executables, Functions, tools, history, callVars, mux, procs>>

StoreInit ==
    /\ Model = "openai"
    /\ Memoriser \in {"inmem", "noop"}
    /\ Constructed

StoreNext ==
    \/ \E id \in Ids, blob \in Blobs : MemoriserSave(id, blob)
    \/ \E id \in Ids : MemoriserRetrieve(id)

StoreSpec == StoreInit /\ [][StoreNext]_vars

----------------------------------------------------------------------------
(* InMemoryMemoriser called by several goroutines at once: each call takes *)
(* the mutex, accesses the map, and releases the mutex on return           *)

\* The blobs the goroutines save
RaceBlobs == {EmptyBlob, [raw |-> 1]}

\* sync.RWMutex: Lock returns when no writer and no reader holds the mutex
CanLockDespiteReaders == mux.writer = 0

CanLock == mux.writer = 0 /\ mux.readers = {}

\* sync.RWMutex: RLock returns when no writer holds the mutex
CanRLock == mux.writer = 0

At(p, where) == procs[p].pc = where
Goes(p, where) == procs' = [procs EXCEPT ![p].pc = where]
storeOnly == <<Model, Memoriser, executables, Functions, op, tools, callVars>>

\* A goroutine calls Save(id, latest)
BeginSave(p, id, blob) ==
    /\ At(p, "idle")
    /\ procs' = [procs EXCEPT ![p] = [pc |-> "Lock", id |-> id, blob |-> blob]]
    /\ UNCHANGED <<storeOnly, history, mux>>

\* in.mux.Lock()
SaveLock(p) ==
    /\ At(p, "Lock")
    /\ CanLock
    /\ mux' = [mux EXCEPT !.writer = p]
    /\ Goes(p, "write")
    /\ UNCHANGED <<storeOnly, history>>

\* in.history[id] = latest
SaveWrite(p) ==
    /\ At(p, "write")
    /\ history' = [history EXCEPT ![procs[p].id] = procs[p].blob]
    /\ Goes(p, "Unlock")
    /\ UNCHANGED <<storeOnly, mux>>

\* return true, and the deferred in.mux.Unlock()
SaveUnlock(p) ==
    /\ At(p, "Unlock")
    /\ mux' = [mux EXCEPT !.writer = 0]
    /\ procs' = [procs EXCEPT ![p] = Idle]
    /\ UNCHANGED <<storeOnly, history>>

\* A goroutine calls Retrieve(id)
BeginRetrieve(p, id) ==
    /\ At(p, "idle")
    /\ procs' = [procs EXCEPT ![p] = [pc |-> "RLock", id |-> id, blob |-> EmptyBlob]]
    /\ UNCHANGED <<storeOnly, history, mux>>

\* in.mux.RLock()
RetrieveRLock(p) ==
    /\ At(p, "RLock")
    /\ CanRLock
    /\ mux' = [mux EXCEPT !.readers = @ \cup {p}]
    /\ Goes(p, "read")
    /\ UNCHANGED <<storeOnly, history>>

\* h, ok := in.history[id]
RetrieveRead(p) ==
    /\ At(p, "read")
    /\ Goes(p, "RUnlock")
    /\ UNCHANGED <<storeOnly, history, mux>>

\* return, and the deferred in.mux.RUnlock()
RetrieveRUnlock(p) ==
    /\ At(p, "RUnlock")
    /\ mux' = [mux EXCEPT !.readers = @ \ {p}]
    /\ procs' = [procs EXCEPT ![p] = Idle]
    /\ UNCHANGED <<storeOnly, history>>

RaceInit ==
    /\ Model = "openai"
    /\ Memoriser = "inmem"
    /\ Constructed

RaceNext ==
    \E p \in Procs :
        \/ \E id \in Ids, blob \in RaceBlobs : BeginSave(p, id, blob)
        \/ SaveLock(p)
        \/ SaveWrite(p)
        \/ SaveUnlock(p)
        \/ \E id \in Ids : BeginRetrieve(p, id)
        \/ RetrieveRLock(p)
        \/ RetrieveRead(p)
        \/ RetrieveRUnlock(p)

RaceSpec == RaceInit /\ [][RaceNext]_vars

----------------------------------------------------------------------------
(* The constructors of the root package, applied to configurations *)

\* fmt.Errorf("msg - %w", err): an error with a message that wraps err
Errorf(msg, err) == [msg |-> msg, wraps |-> err]

\* errors.Is(err, target) for the errors made here
Is(err, target) == err # Null /\ err.wraps = target

\* *AgentConfig: nil, or a configuration with each field zero or set
AgentConfigs ==
    {Null} \cup [Client : {Null, [Timeout |-> 0]},
                 Model : {"", "gemini-2.0-flash", "gpt-4o"},
                 SystemPrompt : {"", "prompt"},
                 Verbose : BOOLEAN,
                 Auth : {"", "key"},
                 URL : {"", "http://localhost"}]

ConfigErrorUnwrapped(cfg) ==
    IF cfg = Null THEN Errorf("nil agent config not allowed", "") ELSE Null

\* The error of both constructors
ConfigError(cfg) ==
    IF cfg = Null
    THEN Errorf("nil agent config not allowed", "ErrAgentOptInvalid")
    ELSE Null

\* The agent both constructors return: the configuration's fields, the
\* default URL when none is configured, a no-op store and no functions
ConfiguredAgent(cfg, defaultURL) ==
    IF cfg = Null THEN Null
    ELSE [Client |-> cfg.Client,
          Functions |-> <<>>,
          Model |-> cfg.Model,
          Memoriser |-> "noop",
          SystemPrompt |-> cfg.SystemPrompt,
          Verbose |-> cfg.Verbose,
          Auth |-> cfg.Auth,
          URL |-> IF cfg.URL = "" THEN defaultURL ELSE cfg.URL]

NewGeminiAgent(cfg) ==
    /\ Returns("NewGeminiAgent", [cfg |-> cfg],
               [agent |-> ConfiguredAgent(cfg, "https://generativelanguage.googleapis.com/v1beta/models"),
                err |-> ConfigError(cfg)])
    /\ UNCHANGED <<Model, Memoriser, executables, Functions, tools, history, callVars, mux, procs>>

NewOpenAIAgent(cfg) ==
    /\ Returns("NewOpenAIAgent", [cfg |-> cfg],
               [agent |-> ConfiguredAgent(cfg, "https://api.openai.com/v1/responses"),
                err |-> ConfigError(cfg)])
    /\ UNCHANGED <<Model, Memoriser, executables, Functions, tools, history, callVars, mux, procs>>

ConfigInit ==
    /\ Model = "openai"
    /\ Memoriser = "noop"
    /\ Constructed

ConfigNext ==
    \E cfg \in AgentConfigs :
        \/ NewGeminiAgent(cfg)
        \/ NewOpenAIAgent(cfg)

ConfigSpec == ConfigInit /\ [][ConfigNext]_vars

----------------------------------------------------------------------------
(* Calls made by several goroutines with one id on one in-memory store.    *)
(* Each Call retrieves the state, builds its body, runs Generate and saves *)
(* the state; Retrieve and Save are each one step, the mutex making each   *)
(* atomic, and Generate is one round answered by a text.                   *)

\* The id the Calls share
SharedId == "i1"

\* The user input of goroutine p's Call
UserInputOf(p) == [i \in 1..p |-> "u"]

InputOf(p) == [Id |-> SharedId, UserInput |-> UserInputOf(p), Schema |-> Null]

\* The turn with which the provider answers
Answer ==
    IF Model = "gemini" THEN Content("model", <<TextPart(<<"a">>)>>)
    ELSE Message("assistant", <<OutputText(<<"a">>)>>)

\* A body with entry appended to its conversation state
Extended(b, entry) ==
    IF Model = "gemini" THEN [b EXCEPT !.Contents = Append(@, entry)]
    ELSE [b EXCEPT !.Input = Append(@, entry)]

PersistedMerged(p) ==
    LET stored == IF ~HasHistory(history[procs[p].id]) THEN <<>>
                  ELSE IF Model = "gemini" THEN UnmarshalGemini(history[procs[p].id]).Contents
                  ELSE UnmarshalOpenAI(history[procs[p].id]).Input
        mine == IF Model = "gemini" THEN procs[p].blob.Contents ELSE procs[p].blob.Input
        own == SubSeq(mine, Len(mine) - 1, Len(mine))
    IN  Marshal(IF Model = "gemini" THEN [procs[p].blob EXCEPT !.Contents = stored \o own]
                ELSE [procs[p].blob EXCEPT !.Input = stored \o own])

\* state, err = json.Marshal(body): what the Call hands to Save
Persisted(p) == Marshal(procs[p].blob)

\* Call as far as Body: the history is retrieved and the body built from it
CallRetrieves(p) ==
    /\ At(p, "idle")
    /\ LET r == Retrieve(SharedId)
           b == Body(InputOf(p), r.blob)
       IN  procs' = [procs EXCEPT ![p] =
                        IF r.err # "nil" \/ b.err # "nil"
                        THEN [pc |-> "failed", id |-> SharedId, blob |-> EmptyBlob]
                        ELSE [pc |-> "generating", id |-> SharedId, blob |-> b.body]]
    /\ UNCHANGED <<storeOnly, history, mux>>

\* Generate returns the body with the answer appended
CallGenerates(p) ==
    /\ At(p, "generating")
    /\ procs' = [procs EXCEPT ![p] = [pc |-> "saving", id |-> @.id,
                                      blob |-> Extended(WithTools(@.blob), Answer)]]
    /\ UNCHANGED <<storeOnly, history, mux>>

\* Generate returns an error: Call returns it
CallGenerateFails(p) ==
    /\ At(p, "generating")
    /\ procs' = [procs EXCEPT ![p] = [pc |-> "failed", id |-> @.id, blob |-> EmptyBlob]]
    /\ UNCHANGED <<storeOnly, history, mux>>

\* a.Memoriser.Save(input.Id, state), and Call returns
CallSaves(p) ==
    /\ At(p, "saving")
    /\ history' = Saved(procs[p].id, Persisted(p))
    /\ Goes(p, "returned")
    /\ UNCHANGED <<storeOnly, mux>>

SharedInit ==
    /\ Model \in {"openai", "gemini"}
    /\ Memoriser = "inmem"
    /\ Constructed

\* The application saves an empty history under the id before any Call
SharedNext ==
    \/ (\A p \in Procs : At(p, "idle")) /\ Save(SharedId, EmptyBlob)
    \/ \E p \in Procs :
          \/ CallRetrieves(p)
          \/ CallGenerates(p)
          \/ CallGenerateFails(p)
          \/ CallSaves(p)

SharedSpec == SharedInit /\ [][SharedNext]_vars

----------------------------------------------------------------------------
(* Vocabulary of the properties *)

\* A Call has returned and nothing has happened since
Returned == pc = "idle" /\ result # None

Matched == Model \in {"gemini", "openai"}

\* The conversation state inside a body
StateOf(b) == IF Model = "gemini" THEN b.Contents ELSE b.Input

RECURSIVE ContentTexts(_)
ContentTexts(cs) == IF cs = <<>> THEN <<>> ELSE Head(cs).text \o ContentTexts(Tail(cs))

RECURSIVE ItemTexts(_)
ItemTexts(items) ==
    IF items = <<>> THEN <<>>
    ELSE (IF Head(items).type = "message" THEN ContentTexts(Head(items).content) ELSE <<>>)
         \o ItemTexts(Tail(items))

RECURSIVE PartTexts(_)
PartTexts(ps) ==
    IF ps = <<>> THEN <<>>
    ELSE (IF Head(ps).FunctionCall.Name = "" THEN Head(ps).Text ELSE <<>>) \o PartTexts(Tail(ps))

RECURSIVE CandidateTexts(_)
CandidateTexts(cs) ==
    IF cs = <<>> THEN <<>> ELSE PartTexts(Head(cs).Content.Parts) \o CandidateTexts(Tail(cs))

\* All text parts of a response, in response order
ResponseText(r) == IF Model = "gemini" THEN CandidateTexts(r.Candidates) ELSE ItemTexts(r.Output)

\* The function calls of a response, in response order: [id, name, args]
RECURSIVE ItemCalls(_)
ItemCalls(items) ==
    IF items = <<>> THEN <<>>
    ELSE (IF Head(items).type = "function_call"
          THEN <<[id |-> Head(items).call_id, name |-> Head(items).name,
                  args |-> Head(items).arguments]>>
          ELSE <<>>) \o ItemCalls(Tail(items))

RECURSIVE PartCalls(_)
PartCalls(ps) ==
    IF ps = <<>> THEN <<>>
    ELSE (IF Head(ps).FunctionCall.Name # ""
          THEN <<[id |-> Head(ps).FunctionCall.Name, name |-> Head(ps).FunctionCall.Name,
                  args |-> Head(ps).FunctionCall.Args]>>
          ELSE <<>>) \o PartCalls(Tail(ps))

RECURSIVE CandidateCalls(_)
CandidateCalls(cs) ==
    IF cs = <<>> THEN <<>> ELSE PartCalls(Head(cs).Content.Parts) \o CandidateCalls(Tail(cs))

ResponseCalls(r) == IF Model = "gemini" THEN CandidateCalls(r.Candidates) ELSE ItemCalls(r.Output)

\* Zero tool calls and the provider's completion signal
SignalsCompletion(r) ==
    /\ ResponseCalls(r) = <<>>
    /\ Model = "openai" => r.Status = "completed"

\* ... in a response the adapter accepts: the output is there, every item
\* is a message, every content an output_text without refusal
WellFormed(r) ==
    IF Model = "gemini" THEN ~r.CandidatesNil
    ELSE /\ ~r.OutputNil
         /\ \A i \in 1..Len(r.Output) :
               /\ r.Output[i].type \in {"message", "function_call"}
               /\ r.Output[i].type = "message" =>
                     \A c \in 1..Len(r.Output[i].content) :
                        /\ r.Output[i].content[c].type = "output_text"
                        /\ r.Output[i].content[c].refusal = <<>>

Registrations(name) == {j \in 1..Len(tools) : tools[j].Name = name}

\* The executions logged for round k, in order
RECURSIVE RoundExecs(_, _)
RoundExecs(log, k) ==
    IF log = <<>> THEN <<>>
    ELSE (IF Head(log).round = k THEN <<Head(log)>> ELSE <<>>) \o RoundExecs(Tail(log), k)

\* What request k+1 carries beyond request k
Added(k) ==
    SubSeq(StateOf(requests[k + 1]), Len(StateOf(requests[k])) + 1, Len(StateOf(requests[k + 1])))

----------------------------------------------------------------------------
(* C1 *)

\* C1, as stated: once the first response carries zero tool calls and the
\* completion signal, exactly one request has been sent, and the Call
\* returns the concatenation of that response's text parts as its answer.
C1_FirstResponseFinal ==
    (Len(responses) >= 1 /\ SignalsCompletion(responses[1])) =>
        /\ Len(requests) = 1
        /\ Returned => /\ result.err = "nil"
                       /\ result.Output = ResponseText(responses[1])

\* C1, amended: the same for a first response the adapter accepts (output or
\* candidates present, no refusal, no item of an unrecognized type).
C1_FirstAcceptedResponseFinal ==
    (Len(responses) >= 1 /\ SignalsCompletion(responses[1]) /\ WellFormed(responses[1])) =>
        /\ Len(requests) = 1
        /\ Returned => /\ result.err = "nil"
                       /\ result.Output = ResponseText(responses[1])

C1_Witness ==
    /\ Returned
    /\ Model = "openai"
    /\ Len(responses) = 1
    /\ SignalsCompletion(responses[1])
    /\ WellFormed(responses[1])
    /\ result.Output = <<"b", "c", "a">>

----------------------------------------------------------------------------
(* C2 *)

\* The step in which the tool being executed returns, with an error
ToolFails ==
    /\ pc = "executing"
    /\ ctxDone' = ctxDone
    /\ Execute(tools[toolIx], execLog[Len(execLog)].args).kind = "err"

FailureMessage == Execute(tools[toolIx], execLog[Len(execLog)].args).msg

\* The payload of a tool-result entry of the state
Payload(entry) ==
    IF Model = "gemini" THEN entry.Parts[1].FunctionResponse.Response ELSE entry.output.json

IsToolResult(entry) ==
    IF Model = "gemini"
    THEN Len(entry.Parts) = 1 /\ entry.Parts[1].FunctionResponse.Name # ""
    ELSE entry.type = "function_call_output"

\* Some entry the step appends is a tool result whose payload is in Shapes
AppendsFailure(Shapes) ==
    /\ Len(StateOf(body')) > Len(StateOf(body))
    /\ SubSeq(StateOf(body'), 1, Len(StateOf(body))) = StateOf(body)
    /\ \E i \in (Len(StateOf(body)) + 1)..Len(StateOf(body')) :
          /\ IsToolResult(StateOf(body')[i])
          /\ Payload(StateOf(body')[i]) \in Shapes

\* A tool of the round being processed has failed
FailedThisRound ==
    \E i \in 1..Len(execLog) :
        /\ execLog[i].round = Len(requests)
        /\ Execute([Name |-> execLog[i].name], execLog[i].args).kind = "err"

\* The loop goes on after a failed tool: the call is not over, and a
\* response that is done with is followed by another round
GoesOn ==
    /\ (pc = "processing" /\ FailedThisRound) => calls
    /\ result # None => result.err # "disk full"

----------------------------------------------------------------------------
(* C3 *)

\* C3: a round that begins with the context cancelled sends nothing; the
\* Call returns the cancellation error and no answer.
C3_CancelledBeforeRequest ==
    [][(pc = "generate" /\ ctxDone) =>
          /\ requests' = requests
          /\ pc' = "idle"
          /\ result' = [Output |-> <<>>, err |-> "context canceled"]]_vars

C3_Witness ==
    /\ Returned
    /\ result.err = "context canceled"
    /\ Len(requests) = 1
    /\ Len(responses) = 1

----------------------------------------------------------------------------
(* C4 *)

\* C4: a Call whose arguments are valid, on a store holding nothing for the
\* id, does not fail for want of a history.
C4_AbsentHistoryIsEmptyHistory ==
    (Returned /\ Valid(input) /\ Memoriser = "inmem" /\ history[input.Id] = Absent) =>
        result.err # "failed to retrieve history"

----------------------------------------------------------------------------
(* C5 *)

\* C5: the error a Call returns is that of the first check violated, in the
\* order store, id, user input.
C5_ValidationOrder ==
    Returned =>
        /\ Memoriser = "nil" => result.err = "ErrNilMemoriser"
        /\ (Memoriser # "nil" /\ input.Id = "") => result.err = "ErrInvalidId"
        /\ (Memoriser # "nil" /\ input.Id # "" /\ input.UserInput = <<>>) =>
              result.err = "ErrInvalidUserInput"

C5_Witness ==
    /\ Returned
    /\ Memoriser = "nil"
    /\ input.Id = ""
    /\ input.UserInput = <<>>
    /\ result.err = "ErrNilMemoriser"

----------------------------------------------------------------------------
(* C6 *)

\* C6: a Call with an empty id or an empty user input is over at once, with
\* a validation error and without any request.
C6_InvalidInputSendsNothing ==
    ((pc # "idle" \/ result # None) /\ (input.Id = "" \/ input.UserInput = <<>>)) =>
        /\ pc = "idle"
        /\ result.err \in {"ErrNilMemoriser", "ErrInvalidId", "ErrInvalidUserInput"}
        /\ requests = <<>>

C6_Witness ==
    /\ Returned
    /\ Memoriser = "inmem"
    /\ history["i1"] # Absent
    /\ trips > 0
    /\ input.Id = ""
    /\ input.UserInput = <<"u">>
    /\ result.err = "ErrInvalidId"
    /\ requests = <<>>

----------------------------------------------------------------------------
(* C7 *)

\* C7: with a model of neither family, a Call that passes validation and
\* retrieval returns ErrModelUnmatched and sends nothing.
C7_UnmatchedModelIsAnError ==
    (Returned /\ ~Matched /\ Valid(input) /\ Retrieve(input.Id).err = "nil") =>
        /\ result.err = "ErrModelUnmatched"
        /\ requests = <<>>

----------------------------------------------------------------------------
(* C8 *)

\* C8: a Call that returns an error returns an empty answer.
C8_NoAnswerWithError ==
    Returned => (result.err # "nil" => result.Output = <<>>)

\* The loop fails in its second round, having gathered text in that round
C8_Witness ==
    /\ Returned
    /\ result.err = "failed to encode results into json"
    /\ Len(requests) = 2
    /\ reply # <<>>
    /\ ResponseText(responses[1]) # <<>>

----------------------------------------------------------------------------
(* C9 *)

\* What an entry of the state is: the result of a call, or an item
Tag(entry) ==
    IF IsToolResult(entry)
    THEN [result |-> IF Model = "gemini" THEN entry.Parts[1].FunctionResponse.Name
                     ELSE entry.call_id]
    ELSE [item |-> entry]

RECURSIVE ItemTags(_)
ItemTags(items) ==
    IF items = <<>> THEN <<>>
    ELSE <<[item |-> Head(items)]>>
         \o (IF Head(items).type = "function_call"
             THEN <<[result |-> Head(items).call_id]>> ELSE <<>>)
         \o ItemTags(Tail(items))

RECURSIVE CandidateTags(_)
CandidateTags(cs) ==
    IF cs = <<>> THEN <<>>
    ELSE LET called == PartCalls(Head(cs).Content.Parts)
         IN  <<[item |-> Head(cs).Content]>>
             \o [i \in 1..Len(called) |-> [result |-> called[i].name]]
             \o CandidateTags(Tail(cs))

\* A response's items, each call followed by one result
ExpectedTags(r) == IF Model = "gemini" THEN CandidateTags(r.Candidates) ELSE ItemTags(r.Output)

NameAndArgs(s) == [i \in 1..Len(s) |-> [name |-> s[i].name, args |-> s[i].args]]

\* Every call of the response names one registered tool
CallsRegisteredOnce(r) ==
    \A i \in 1..Len(ResponseCalls(r)) :
        Cardinality(Registrations(ResponseCalls(r)[i].name)) = 1

\* C9: the tools a response calls are executed in the order of the calls,
\* and the next request carries the state extended by the response's items,
\* each call followed by exactly one result entry, in that order.
C9_OneResultPerCallInOrder ==
    \A k \in 1..(Len(requests) - 1) :
        CallsRegisteredOnce(responses[k]) =>
            /\ NameAndArgs(RoundExecs(execLog, k)) = NameAndArgs(ResponseCalls(responses[k]))
            /\ [i \in 1..Len(Added(k)) |-> Tag(Added(k)[i])] = ExpectedTags(responses[k])

----------------------------------------------------------------------------
(* C10 *)

\* The tool-result entry for call c of a tool that returns out
ResultEntry(c, out) ==
    IF Model = "gemini"
    THEN Content("user", <<ResponsePart(c.name,
                              IF out.kind = "err"
                              THEN [success |-> FALSE, failureReason |-> out.msg]
                              ELSE out.val)>>)
    ELSE FunctionToolCallOutput(c.id,
                                IF out.kind = "err"
                                THEN Encode([success |-> FALSE, reason |-> out.msg])
                                ELSE Encode(out.val))

\* C10: when a response holds exactly one call, of a tool registered once,
\* and the next response is final, the tool has been executed exactly once
\* with the call's arguments, the second request carries its result entry,
\* and there is no further request.
C10_OneCallOneFurtherRoundTrip ==
    \A k \in 1..(Len(responses) - 1) :
        (/\ Len(ResponseCalls(responses[k])) = 1
         /\ CallsRegisteredOnce(responses[k])
         /\ SignalsCompletion(responses[k + 1])) =>
            LET c == ResponseCalls(responses[k])[1]
            IN  /\ NameAndArgs(RoundExecs(execLog, k)) = <<[name |-> c.name, args |-> c.args]>>
                /\ \E i \in 1..Len(Added(k)) :
                      Added(k)[i] = ResultEntry(c, Execute([Name |-> c.name], c.args))
                /\ Len(requests) = k + 1

C10_Witness ==
    /\ Returned
    /\ Model = "openai"
    /\ result.err = "nil"
    /\ Len(requests) = 2
    /\ NameAndArgs(execLog) = <<[name |-> "double", args |-> Encode(Obj(21))]>>
    /\ \E i \in 1..Len(body.Input) :
          body.Input[i] = FunctionToolCallOutput("c1", Encode(Obj(42)))

----------------------------------------------------------------------------
(* C11 *)

\* The state a stored blob decodes to
Decoded(blob) ==
    IF ~HasHistory(blob) THEN (IF Model = "gemini" THEN ZeroGemini ELSE ZeroOpenAI)
    ELSE IF Model = "gemini" THEN UnmarshalGemini(blob) ELSE UnmarshalOpenAI(blob)

\* The turn carrying the user input u
UserTurn(u) ==
    IF Model = "gemini"
    THEN [Role |-> "user",
          Parts |-> <<[Text |-> u, FunctionCall |-> NoCall, FunctionResponse |-> NoResponse]>>]
    ELSE [type |-> "message", role |-> "user",
          content |-> <<[type |-> "input_text", text |-> u, refusal |-> <<>>]>>]

\* What a response adds to the state: its items, or its candidates' contents
ResponseItems(r) ==
    IF Model = "gemini" THEN [i \in 1..Len(r.Candidates) |-> r.Candidates[i].Content]
    ELSE r.Output

IsPrefix(s, t) == Len(s) <= Len(t) /\ SubSeq(t, 1, Len(s)) = s

Range(s) == {s[i] : i \in 1..Len(s)}

\* A Call returns successfully on the in-memory store
ReturnsSaved ==
    /\ pc # "idle"
    /\ pc' = "idle"
    /\ result'.err = "nil"
    /\ Memoriser = "inmem"

\* The stored state is the final state: the prior history, the user turn,
\* every response item and the result of every executed call
SavedIsFinal ==
    LET prior == StateOf(Decoded(history[input.Id]))
        S == StateOf(Decoded(history'[input.Id]))
        new == SubSeq(S, Len(prior) + 2, Len(S))
    IN  /\ history'[input.Id] = Marshal(body')
        /\ S = StateOf(body')
        /\ Decoded(history'[input.Id]).Tools = body'.Tools
        /\ IsPrefix(Append(prior, UserTurn(input.UserInput)), S)
        /\ \A k \in 1..Len(responses) :
              /\ Range(ResponseItems(responses[k])) \subseteq Range(new)
              /\ \A i \in 1..Len(ResponseCalls(responses[k])) :
                    LET c == ResponseCalls(responses[k])[i]
                    IN  Registrations(c.name) # {} =>
                           ResultEntry(c, Execute([Name |-> c.name], c.args)) \in Range(new)

\* A Call on the in-memory store gets as far as Generate
BuildsBody == pc = "idle" /\ pc' = "generate" /\ Memoriser = "inmem"

\* C11: when a Call returns successfully on the in-memory store, what the
\* store then holds for the id is the serialization of the final state,
\* which holds the prior history, the new user turn, every response item
\* and every tool result of the Call; and the body of a Call is the state
\* stored under its id, extended by its user turn.
C11_SuccessfulCallSavesState ==
    /\ [][ReturnsSaved => SavedIsFinal]_vars
    /\ [][BuildsBody =>
             StateOf(body') = Append(StateOf(Decoded(history[input'.Id])),
                                     UserTurn(input'.UserInput))]_vars

\* The second Call on an id has returned, its state holding both Calls
C11_Witness ==
    /\ Returned
    /\ Memoriser = "inmem"
    /\ result.err = "nil"
    /\ trips = 2
    /\ Len(requests) = 1
    /\ Len(StateOf(body)) = 4
    /\ history[input.Id] = Marshal(body)

----------------------------------------------------------------------------
(* C12 *)

\* The loop has completed: the last request was answered by a response the
\* adapter accepts, without calls and with the completion signal
LoopCompleted ==
    /\ Len(responses) >= 1
    /\ Len(requests) = Len(responses)
    /\ SignalsCompletion(responses[Len(responses)])
    /\ WellFormed(responses[Len(responses)])

\* C12: a Call whose loop has completed returns the answer and a nil
\* error also when the final state cannot be serialized or Save reports
\* false.
C12_PersistenceFailureNotSurfaced ==
    (Returned /\ LoopCompleted /\ (Memoriser = "failing" \/ StateMarshalFails(body))) =>
        /\ result.err = "nil"
        /\ result.Output = ResponseText(responses[Len(responses)])

C12_Witness ==
    /\ Returned
    /\ LoopCompleted
    /\ Memoriser = "failing"
    /\ ~SaveReports(input.Id, Marshal(body))
    /\ Len(requests) = 2
    /\ result.Output # <<>>

----------------------------------------------------------------------------
(* C13 *)

\* The step of a pending round trip in which no response arrives and the
\* context is left alone: the transport has failed
NoResponseArrives == pc = "awaiting" /\ responses' = responses /\ ctxDone' = ctxDone

\* C13: when the transport fails on a round trip, the Call is over with an
\* error and an empty answer, and no request has been added.
C13_TransportFailureStops ==
    [][NoResponseArrives =>
          /\ pc' = "idle"
          /\ result'.err # "nil"
          /\ result'.Output = <<>>
          /\ requests' = requests]_vars

\* The transport fails on the second round trip
C13_Witness ==
    /\ Returned
    /\ result.err = "transport"
    /\ Len(requests) = 2
    /\ Len(responses) = 1
    /\ execLog # <<>>

----------------------------------------------------------------------------
(* C14 *)

\* C14: once a response lacks its output (candidates), or holds a refusal
\* or an item of an unrecognized type, no further request is sent and the
\* Call, when it returns, returns an error.
C14_ProtocolErrorAborts ==
    \A k \in 1..Len(responses) :
        ~WellFormed(responses[k]) =>
            /\ Len(requests) = k
            /\ pc \notin {"generate", "awaiting"}
            /\ pc = "idle" => result.err # "nil"

\* The second response holds an item of an unrecognized type
C14_Witness ==
    /\ Returned
    /\ Model = "openai"
    /\ Len(responses) = 2
    /\ WellFormed(responses[1])
    /\ \E i \in 1..Len(responses[2].Output) : responses[2].Output[i].type = "reasoning"
    /\ result.err = "unmatched idk"

----------------------------------------------------------------------------
(* C15 *)

\* C15: the error Call returns is never that of a failed read of the
\* history, of a failed tool, of a tool result that cannot be encoded or of
\* a failed save: those failures leave Call's error nil.
C15_OnlyThreeKindsSurface ==
    Returned =>
        result.err \notin {"failed to retrieve history", "disk full",
                           "failed to encode results into json", "json: unsupported type",
                           "failed to save updated state"}

----------------------------------------------------------------------------
(* C16 *)

\* The operation called name is applied in this step
Applied(name) == op' # op /\ op'.name = name

\* Register is applied to a name that is registered already
RegistersAgain == Applied("Register") /\ op'.args.name \in DOMAIN executables

----------------------------------------------------------------------------
(* C17 *)

\* C17: whatever registrations have been made, no agent holds more than
\* MAX_TOOLS_COUMT tools.
C17_AtMostMaxTools ==
    /\ Cardinality(DOMAIN executables) <= MAX_TOOLS_COUMT
    /\ Len(Functions) <= MAX_TOOLS_COUMT
    /\ Len(tools) <= MAX_TOOLS_COUMT

----------------------------------------------------------------------------
(* C18 *)

\* S extended by the user input u and the schema s, without any encoding
Turn(S, u, s) ==
    IF Model = "gemini" THEN GeminiTurn(S, u, Prompt, s)
    ELSE OpenAITurn(S, "gpt-4o", u, Prompt, s)

\* The state S as the loop returns it when the Call carried the schema s:
\* the loop leaves the schema Body has set alone
Formatted(S, s) ==
    IF Model = "gemini"
    THEN [S EXCEPT !.GenerationConfig = GeminiTurn(S, <<"u">>, Prompt, s).GenerationConfig]
    ELSE [S EXCEPT !.Text = OpenAITurn(S, "gpt-4o", <<"u">>, Prompt, s).Text]

----------------------------------------------------------------------------
(* C19 *)

Instructions(b) == IF Model = "gemini" THEN b.SystemInstruction ELSE b.Instructions

----------------------------------------------------------------------------
(* C20 *)

\* What Execute returned, without the record of fn's invocations
Outcome(r) ==
    IF r.kind = "ok" THEN [kind |-> "ok", val |-> r.val] ELSE [kind |-> "err", msg |-> r.msg]

\* C20: given an object {n}, as a value or as the string holding its JSON
\* text, Execute invokes fn once, on the input {n}, and returns what fn
\* returns; given an argument that cannot be decoded (an array, a string
\* that is no JSON, a value that cannot be encoded), it returns an error
\* and does not invoke fn.
C20_ExecuteDecodesBothForms ==
    op # None =>
        LET in == op.args.in
            v == IF "json" \in DOMAIN in THEN in.json ELSE in
            r == op.ret
        IN  IF "n" \in DOMAIN v
            THEN /\ r.fn = <<[n |-> v.n]>>
                 /\ Outcome(r) = ToolFn(op.args.tool.Name, [n |-> v.n])
            ELSE v \in {Array, NotJSON, Unencodable} => (r.kind = "err" /\ r.fn = <<>>)

\* The string form of {n: 21} has been given to the tool "double"
C20_Witness ==
    /\ op # None
    /\ op.args.tool.Name = "double"
    /\ op.args.in = Encode(Obj(21))
    /\ op.ret = [kind |-> "ok", val |-> Obj(42), fn |-> <<Obj(21)>>]

----------------------------------------------------------------------------
(* C21 *)

\* What a lookup of id in the map gives
Lookup(id) ==
    IF history[id] = Absent THEN [blob |-> Null, err |-> "not found"]
    ELSE [blob |-> history[id], err |-> "nil"]

\* C21: in the in-memory store, which starts empty, Save(id, blob) always
\* returns true and makes blob the content under id, leaving the other ids
\* as they were; Retrieve(id) changes nothing and returns the blob of the
\* most recent Save for that id with no error, or an error when that id
\* was never saved.
C21_RetrieveReturnsLastSave ==
    /\ Memoriser = "inmem" => \A id \in Ids : history[id] = Absent
    /\ [][Memoriser = "inmem" =>
            /\ Applied("Save") =>
                  /\ op'.ret = TRUE
                  /\ history' = [history EXCEPT ![op'.args.id] = op'.args.blob]
            /\ Applied("Retrieve") =>
                  /\ history' = history
                  /\ op'.ret = Lookup(op'.args.id)
                  /\ history[op'.args.id] = Absent => op'.ret.err # "nil"]_vars

\* A Retrieve returns the blob saved under its id while the other id holds
\* another blob
C21_Witness ==
    /\ Memoriser = "inmem"
    /\ op # None
    /\ op.name = "Retrieve"
    /\ op.args.id = "i1"
    /\ op.ret = [blob |-> [raw |-> 2], err |-> "nil"]
    /\ history[""] = [raw |-> 1]

----------------------------------------------------------------------------
(* C22 *)

\* C22: the no-op store's Save returns true and stores nothing; its
\* Retrieve returns an empty blob and no error, whatever was saved.
C22_NoOpStoresNothing ==
    [][Memoriser = "noop" =>
        /\ Applied("Save") => op'.ret = TRUE /\ history' = history
        /\ Applied("Retrieve") => op'.ret = [blob |-> EmptyBlob, err |-> "nil"]
        /\ \A id \in Ids : Retrieve(id)' = [blob |-> EmptyBlob, err |-> "nil"]]_vars

\* A non-empty blob has just been saved in the no-op store, and a Retrieve
\* of its id gives the empty blob
C22_Witness ==
    /\ Memoriser = "noop"
    /\ op # None
    /\ op.name = "Save"
    /\ op.ret = TRUE
    /\ op.args.blob = [raw |-> 1]
    /\ Retrieve(op.args.id) = [blob |-> EmptyBlob, err |-> "nil"]

----------------------------------------------------------------------------
(* C23 *)

\* The goroutine is about to access the map: it has taken the mutex and has
\* not yet executed its statement on in.history
Writing(p) == At(p, "write")
Reading(p) == At(p, "read")

\* C23: on one in-memory store called by several goroutines, a Save never
\* accesses the storage while another Save or a Retrieve is accessing it;
\* accesses of Retrieves overlap with accesses of Retrieves only.
C23_SaveExcludesEveryAccess ==
    \A p, q \in Procs :
        p # q /\ Writing(p) => ~Writing(q) /\ ~Reading(q)

\* Two Retrieves access the storage at once while a Save waits for the mutex
C23_Witness ==
    \E p, q, r \in Procs :
        /\ p # q
        /\ Reading(p)
        /\ Reading(q)
        /\ At(r, "Lock")

----------------------------------------------------------------------------
(* C24 *)

\* A constructor of the root package has been applied
Constructs == op # None /\ op.name \in {"NewGeminiAgent", "NewOpenAIAgent"}

\* C24: constructing an agent from a nil configuration fails with an error
\* that wraps ErrAgentOptInvalid and returns no agent; constructing from a
\* non-nil configuration returns an agent and no error.
C24_NilConfigRejected ==
    Constructs =>
        IF op.args.cfg = Null
        THEN op.ret.agent = Null /\ Is(op.ret.err, "ErrAgentOptInvalid")
        ELSE op.ret.agent # Null /\ op.ret.err = Null

\* A constructor has been given the nil configuration and has failed
C24_Witness ==
    /\ Constructs
    /\ op.args.cfg = Null
    /\ op.ret.err # Null

----------------------------------------------------------------------------
(* C25 *)

\* The names a request body declares, in order
DeclaredNames(b) ==
    IF Model = "gemini"
    THEN (IF b.Tools = <<>> THEN <<>>
          ELSE [i \in 1..Len(b.Tools[1].FunctionDeclarations) |->
                   b.Tools[1].FunctionDeclarations[i].Name])
    ELSE [i \in 1..Len(b.Tools) |-> b.Tools[i].Name]

\* The names of the registered tools, in registration order
RegisteredNames == [i \in 1..Len(tools) |-> tools[i].Name]

\* The tool list of the state the Call in flight loaded from its history
LoadedTools == Decoded(Retrieve(input.Id).blob).Tools

\* A request is sent in this step
Sends == requests' # requests /\ requests' # <<>>

\* C25, as stated: every request of a Call declares each registered tool
\* exactly once.
C25_RequestsDeclareRegisteredTools ==
    \A k \in 1..Len(requests) : DeclaredNames(requests[k]) = RegisteredNames

\* C25, amended: the tool list is set at most once per Call, before the
\* first request, and only when the loaded state carries none: the first
\* request then declares each registered tool exactly once. A loaded state
\* that carries a tool list keeps it. Every later request of the Call
\* carries the tool list of the first.
C25_DeclarationsSetOnce ==
    [][Sends =>
          LET r == requests'[Len(requests')]
          IN  IF requests = <<>>
              THEN IF LoadedTools = <<>>
                   THEN DeclaredNames(r) = RegisteredNames
                   ELSE r.Tools = LoadedTools
              ELSE r.Tools = requests[1].Tools]_vars

\* The second request of a Call with two registered tools declares each once
C25_Witness ==
    /\ Len(requests) = 2
    /\ Len(tools) = 2
    /\ DeclaredNames(requests[2]) = RegisteredNames
    /\ requests[2].Tools = requests[1].Tools

----------------------------------------------------------------------------
(* C26 *)

\* C26: for each tool call of a response at most one registered tool is
\* executed, the first in registration order whose name is the call's: no
\* execution is of a tool that has a tool of the same name before it.
C26_FirstMatchOnly ==
    \A i \in 1..Len(execLog) :
        \A j \in 1..(execLog[i].tool - 1) : tools[j].Name # execLog[i].name

----------------------------------------------------------------------------
(* C27 *)

\* The loop is at a tool call whose name no registered tool has
AtUnmatchedCall ==
    \/ /\ OpenAIHasItem
       /\ OpenAIItem.type = "function_call"
       /\ Registrations(OpenAIItem.name) = {}
    \/ /\ GeminiHasPart
       /\ GeminiPart.FunctionCall.Name # ""
       /\ Registrations(GeminiPart.FunctionCall.Name) = {}

\* The loop passes on to what follows the call
Passes == outIx' # outIx

\* A response whose processing set calls is done with
DoneWithCalls == pc = "processing" /\ calls /\ pc' \notin {"processing", "executing"}

\* C27: at a tool call whose name matches no registered tool the loop
\* executes nothing, appends no result or failure entry (the first adapter
\* keeps the call item itself, the second has kept the candidate already),
\* returns nothing, and sets calls; and a response during which calls was
\* set ends in another round, unless one of its other items is an error.
C27_UnmatchedCallLeftUnanswered ==
    /\ [][AtUnmatchedCall /\ Passes =>
             /\ execLog' = execLog
             /\ StateOf(body') = IF Model = "openai"
                                 THEN Append(StateOf(body), OpenAIItem)
                                 ELSE StateOf(body)
             /\ calls' = TRUE
             /\ pc' = "processing"
             /\ result' = result]_vars
    /\ [][DoneWithCalls =>
             \/ pc' = "generate" /\ body' = body /\ result' = result
             \/ pc' = "idle" /\ result'.err # "nil"]_vars

\* With no tool registered, a response with a tool call has been processed
\* and a second request has been sent, holding the call and no result
C27_Witness ==
    /\ Matched
    /\ tools = <<>>
    /\ Len(requests) = 2
    /\ ResponseCalls(responses[1]) # <<>>
    /\ execLog = <<>>
    /\ \A i \in 1..Len(StateOf(requests[2])) : ~IsToolResult(StateOf(requests[2])[i])

----------------------------------------------------------------------------
(* C28 *)

\* Every item of the response has been processed
OpenAIProcessed == OpenAIProcessing /\ ~resp.OutputNil /\ outIx > Len(resp.Output)

\* The loop leaves the response
Leaves == pc' # "processing"

\* C28: in the first adapter, once a response is processed, another round
\* trip is issued if and only if the response contained a function_call
\* item or its status is not "completed"; otherwise the Call returns, its
\* output being the text of that response.
C28_OpenAIResendsOnCallsOrStatus ==
    [][OpenAIProcessed /\ Leaves =>
          IF ItemCalls(resp.Output) # <<>> \/ resp.Status # "completed"
          THEN pc' = "generate" /\ result' = result
          ELSE /\ pc' = "idle"
               /\ result' = [Output |-> ResponseText(resp), err |-> "nil"]]_vars

\* A response without tool calls whose status is not "completed" has been
\* followed by a second request
C28_Witness ==
    /\ Model = "openai"
    /\ Len(requests) = 2
    /\ ItemCalls(responses[1].Output) = <<>>
    /\ responses[1].Status # "completed"

----------------------------------------------------------------------------
(* C29 *)

\* Every candidate of the response has been processed
GeminiProcessed == GeminiProcessing /\ ~resp.CandidatesNil /\ candIx > Len(resp.Candidates)

\* C29: in the second adapter, once a response is processed, the loop
\* completes if and only if no part of the response's candidates is a
\* function call; if any part is one, another round trip is issued.
C29_GeminiCompletesWithoutCalls ==
    [][GeminiProcessed /\ Leaves =>
          IF CandidateCalls(resp.Candidates) = <<>>
          THEN /\ pc' = "idle"
               /\ result'.err = "nil"
               /\ requests' = requests
          ELSE pc' = "generate" /\ result' = result]_vars

\* A response with a function call no tool answers has been followed by a
\* second request
C29_Witness ==
    /\ Model = "gemini"
    /\ Len(requests) = 2
    /\ CandidateCalls(responses[1].Candidates) # <<>>
    /\ execLog = <<>>

----------------------------------------------------------------------------
(* C30 *)

\* What the request sent in this step adds to the state of the request
\* before it
SentSince ==
    LET S == StateOf(requests'[Len(requests')])
    IN  SubSeq(S, Len(StateOf(requests[Len(requests)])) + 1, Len(S))

\* The request sent in this step holds the state of the request before it,
\* the items of the response to that request, and the result of every tool
\* that response had executed
CarriesLastRound ==
    LET r == responses[Len(responses)]
    IN  /\ IsPrefix(StateOf(requests[Len(requests)]), StateOf(requests'[Len(requests')]))
        /\ Range(ResponseItems(r)) \subseteq Range(SentSince)
        /\ \A i \in 1..Len(ResponseCalls(r)) :
              LET c == ResponseCalls(r)[i]
              IN  Registrations(c.name) # {} =>
                     ResultEntry(c, Execute([Name |-> c.name], c.args)) \in Range(SentSince)

\* C30: turns are strictly sequential. Every request but the last has its
\* response, and the last lacks it only while it is in flight or after the
\* transport failed; a tool executes only while no request is in flight; a
\* request is sent only when every earlier one has been answered and the
\* last response has been processed, and it holds that response's items
\* and the results of all its tool executions.
C30_TurnsAreSequential ==
    /\ [](/\ Len(requests) \in {Len(responses), Len(responses) + 1}
          /\ pc = "awaiting" => Len(requests) = Len(responses) + 1
          /\ pc \in {"processing", "executing", "generate"} => Len(requests) = Len(responses)
          /\ pc = "executing" => toolIx \in 1..Len(tools))
    /\ [][Sends =>
             /\ Len(requests) = Len(responses)
             /\ pc = "generate"
             /\ pc' = "awaiting"
             /\ Len(requests') = Len(requests) + 1
             /\ requests # <<>> => CarriesLastRound]_vars

\* The second request is in flight, after the first response's tool call
\* has been executed
C30_Witness ==
    /\ Matched
    /\ pc = "awaiting"
    /\ Len(requests) = 2
    /\ Len(responses) = 1
    /\ Len(execLog) = 1

----------------------------------------------------------------------------
(* C31 *)

\* The executions a response's calls lead to: one for every registered tool
\* whose name is the call's
RECURSIVE ExpectedExecs(_)
ExpectedExecs(cs) ==
    IF cs = <<>> THEN 0
    ELSE Cardinality(Registrations(Head(cs).name)) + ExpectedExecs(Tail(cs))

\* The Call returns the cancellation error in this step
ReturnsCancelled == result' # result /\ result' # None /\ result'.err = "context canceled"

\* The Call has returned the cancellation error after some response
CancelledAfterResponse ==
    Returned /\ result.err = "context canceled" /\ responses # <<>>

\* C31: cancellation is observed only at the start of a round. The
\* cancellation error is returned by no step but the one that would send
\* the next request, and when it is returned after a response, every tool
\* call of that response has been executed and its result is in the state,
\* whenever the context was cancelled.
C31_CancellationSeenAtRoundStart ==
    /\ [][ReturnsCancelled => pc = "generate" /\ ctxDone /\ requests' = requests]_vars
    /\ [](CancelledAfterResponse =>
            LET r == responses[Len(responses)]
            IN  /\ Len(RoundExecs(execLog, Len(responses))) = ExpectedExecs(ResponseCalls(r))
                /\ \A i \in 1..Len(ResponseCalls(r)) :
                      LET c == ResponseCalls(r)[i]
                      IN  Registrations(c.name) # {} =>
                             ResultEntry(c, Execute([Name |-> c.name], c.args))
                                \in Range(StateOf(body)))

\* The context is cancelled while the second tool call of a response is
\* being executed
C31_Witness ==
    /\ Matched
    /\ ctxDone
    /\ pc = "executing"
    /\ Len(responses) = 1
    /\ Len(ResponseCalls(responses[1])) = 2
    /\ Len(execLog) = 2

----------------------------------------------------------------------------
(* C32 *)

\* A Call that sent a request has returned
LoopEnded == Returned /\ Matched /\ responses # <<>>

\* Every response so far asks for another round
AllAskForMore == \A k \in 1..Len(responses) : ~SignalsCompletion(responses[k])

\* Every response so far is one the adapter accepts
AllWellFormed == \A k \in 1..Len(responses) : WellFormed(responses[k])

\* The loop leaves the start of a round
LeavesGenerate == pc = "generate" /\ pc' # "generate"

\* C32, as stated: as long as every response contains a tool call or, for
\* the first adapter, has a status other than "completed", the loop ends
\* only by a failure of the transport or by cancellation.
C32_LoopEndsOnlyWhenToldTo ==
    (LoopEnded /\ AllAskForMore) => result.err \in {"transport", "context canceled"}

\* C32, amended: the loop has no counter of rounds. A round that starts
\* sends its request unless the context is cancelled or the body cannot be
\* encoded; and as long as every response is accepted by the adapter and
\* asks for more, the loop ends only by a failure of the transport, by
\* cancellation, or by a tool result or body that cannot be encoded.
C32_LoopHasNoBound ==
    /\ [][LeavesGenerate =>
             \/ Sends /\ pc' = "awaiting"
             \/ result'.err \in {"context canceled", "json: unsupported type"}]_vars
    /\ []((LoopEnded /\ AllAskForMore /\ AllWellFormed) =>
             result.err \in {"transport", "context canceled",
                             "failed to encode results into json", "json: unsupported type"})

\* Every response has held a tool call and one more request than there are
\* rounds in the model is in flight
C32_Witness ==
    /\ Matched
    /\ pc = "awaiting"
    /\ Len(requests) = MaxRounds + 1
    /\ \A k \in 1..Len(responses) : ResponseCalls(responses[k]) # <<>>

----------------------------------------------------------------------------
(* C33 *)

\* Goroutine p's Call has retrieved the state and has not yet saved
InFlight(p) == procs[p].pc \in {"generating", "saving"}

\* The user turn of goroutine q's Call is in the conversation state S
HoldsTurnOf(q, S) == UserTurn(UserInputOf(q)) \in Range(S)

\* Goroutine p's Call saves in this step
SavesNow(p) == At(p, "saving") /\ procs'[p].pc = "returned"

\* C33: Calls running at the same time with one id on one in-memory store
\* do not see each other: the state of a Call that has retrieved and not
\* yet saved holds no turn of another such Call, and what a Call saves is
\* its own state, which replaces whatever the store holds; so the turns of
\* a Call that saved in between, and that the saving Call had not
\* retrieved, are not in the store afterwards.
C33_LaterSaveOverwrites ==
    /\ [](\A p, q \in Procs :
            (p # q /\ InFlight(p) /\ InFlight(q)) => ~HoldsTurnOf(q, StateOf(procs[p].blob)))
    /\ [][\A p \in Procs :
            SavesNow(p) =>
               /\ history'[SharedId] = Marshal(procs[p].blob)
               /\ \A i \in Ids \ {SharedId} : history'[i] = history[i]
               /\ \A q \in Procs \ {p} :
                     (At(q, "returned") /\ ~HoldsTurnOf(q, StateOf(procs[p].blob))) =>
                        ~HoldsTurnOf(q, StateOf(Decoded(history'[SharedId])))]_vars

\* Two Calls have returned after saving, and the store holds the turn of
\* one and not of the other
C33_Witness ==
    \E p, q \in Procs :
        /\ p # q
        /\ At(p, "returned")
        /\ At(q, "returned")
        /\ HoldsTurnOf(p, StateOf(Decoded(history[SharedId])))
        /\ ~HoldsTurnOf(q, StateOf(Decoded(history[SharedId])))

----------------------------------------------------------------------------
(* C34 *)

\* A tool's Execute returns in this step and the loop goes on
ExecutionReturns == pc = "executing" /\ result' = result /\ ctxDone' = ctxDone

\* C34: every executed tool call appends exactly one result entry to the
\* conversation state, the success result or the failure, in both adapters.
C34_OneEntryPerExecution ==
    [][ExecutionReturns => Len(StateOf(body')) = Len(StateOf(body)) + 1]_vars

----------------------------------------------------------------------------
(* C35 *)

\* A Call that received a response has returned an answer
Answered == Returned /\ Matched /\ result.err = "nil" /\ responses # <<>>

\* C35: the answer a Call returns is the concatenation of the texts of its
\* last response only; the items of every response, the texts of the
\* earlier ones included, are in the conversation state.
C35_AnswerIsLastResponseText ==
    Answered =>
        /\ result.Output = ResponseText(responses[Len(responses)])
        /\ \A k \in 1..Len(responses) :
              Range(ResponseItems(responses[k])) \subseteq Range(StateOf(body))

\* A Call has returned after two responses that both held text: the answer
\* is the second's
C35_Witness ==
    /\ Answered
    /\ Len(responses) = 2
    /\ ResponseText(responses[1]) # <<>>
    /\ ResponseText(responses[2]) # <<>>
    /\ result.Output = ResponseText(responses[2])
    /\ result.Output # ResponseText(responses[1]) \o ResponseText(responses[2])

----------------------------------------------------------------------------
(* C36 *)

\* The Call in flight, or the last one, has an OpenAI body
HasOpenAIBody == Model = "openai" /\ "Input" \in DOMAIN body

\* Item i of the state is a tool output
IsOutput(S, i) == S[i].type = "function_call_output"

\* Item j of the state is the call that output i answers: it has the
\* output's call_id, and nothing lies between the two but outputs of that
\* call
AnswersCall(S, i, j) ==
    /\ S[j].type = "function_call"
    /\ S[j].call_id = S[i].call_id
    /\ \A k \in (j + 1)..(i - 1) : IsOutput(S, k) /\ S[k].call_id = S[i].call_id

\* C36: in the first adapter's state, at every point of the loop, each
\* function_call_output item carries the call_id of a function_call item
\* that occurs earlier in the state, and lies after that function_call and
\* before any later item of a response.
C36_OutputsFollowTheirCall ==
    HasOpenAIBody =>
        \A i \in 1..Len(body.Input) :
            IsOutput(body.Input, i) =>
                \E j \in 1..(i - 1) : AnswersCall(body.Input, i, j)

\* The state of the second round holds a tool output
C36_Witness ==
    /\ HasOpenAIBody
    /\ Len(requests) = 2
    /\ \E i \in 1..Len(body.Input) : IsOutput(body.Input, i)

----------------------------------------------------------------------------
(* C37 *)

\* The loop is running on a body, before and after this step
InLoop == pc # "idle" /\ body # None /\ body' # None

\* The entries of S that are not tool results
NotResults(S) == SelectSeq(S, LAMBDA entry : ~IsToolResult(entry))

\* What the state holds beyond the state of the last request sent
SinceLastRequest(S) == SubSeq(S, Len(StateOf(requests[Len(requests)])) + 1, Len(S))

\* C37: the conversation state is append-only during a Call. Every step of
\* the loop leaves the entries already in the state as they are and in
\* their order; every request, and the state finally returned, has the
\* state of the first request, which is the one Body built, as a prefix;
\* and what a processed response adds besides tool results is its items,
\* each once, in the order of the response.
C37_StateIsAppendOnly ==
    /\ [][InLoop => IsPrefix(StateOf(body), StateOf(body'))]_vars
    /\ []((requests # <<>> /\ body # None) =>
             /\ IsPrefix(StateOf(requests[1]), StateOf(body))
             /\ \A k \in 1..Len(requests) : IsPrefix(StateOf(requests[1]), StateOf(requests[k])))
    /\ [][(Sends /\ requests # <<>>) =>
             NotResults(SinceLastRequest(StateOf(requests'[Len(requests')])))
                = ResponseItems(responses[Len(responses)])]_vars
    /\ [](Answered =>
             NotResults(SinceLastRequest(StateOf(body)))
                = ResponseItems(responses[Len(responses)]))

\* A Call has returned after two rounds with a tool call; its state begins
\* with the state Body built
C37_Witness ==
    /\ Answered
    /\ Len(responses) = 2
    /\ execLog # <<>>
    /\ IsPrefix(StateOf(requests[1]), StateOf(body))
    /\ Len(StateOf(body)) >= Len(StateOf(requests[1])) + 3

----------------------------------------------------------------------------
(* C38 *)

\* A Call returns in this step
ReturnsNow ==
    /\ pc' = "idle"
    /\ result' # None
    /\ pc # "idle" \/ result' # result \/ input' # input

\* A Call is running before and after this step
Running == pc # "idle" /\ pc' # "idle"

\* C38: a Call changes the store at most once, when it returns. A Call that
\* returns an error leaves the content of the store for every id as it
\* was; a Call that returns an answer does so from the end of the loop, and
\* the store then holds the final state under the Call's id (in the
\* in-memory store; the other stores keep nothing) and is otherwise as it
\* was.
C38_SavedOnlyOnSuccess ==
    [][/\ Running => history' = history
       /\ (ReturnsNow /\ result'.err # "nil") => history' = history
       /\ (ReturnsNow /\ result'.err = "nil" /\ Matched) =>
             /\ pc = "processing"
             /\ history' = IF Memoriser = "inmem"
                           THEN [history EXCEPT ![input.Id] = Marshal(body')]
                           ELSE history]_vars

\* On the in-memory store, a Call has returned an error after executing a
\* tool, and the store holds what it held
C38_Witness ==
    /\ Returned
    /\ Matched
    /\ Memoriser = "inmem"
    /\ result.err # "nil"
    /\ execLog # <<>>
    /\ history[input.Id] = EmptyBlob

----------------------------------------------------------------------------
(* C39 *)

\* The request sent in this step follows a response
SendsAgain == Sends /\ requests # <<>>

\* C39: when the state loaded from history carries tool declarations,
\* every request of the Call carries exactly those, whatever tools are
\* registered now; and every registered tool a response names is executed,
\* declared or not.
C39_StoredDeclarationsKept ==
    /\ [][(Sends /\ LoadedTools # <<>>) =>
             requests'[Len(requests')].Tools = LoadedTools]_vars
    /\ [][SendsAgain =>
             Len(RoundExecs(execLog, Len(responses)))
                = ExpectedExecs(ResponseCalls(responses[Len(responses)]))]_vars

\* A tool registered after the state was stored is executed in a Call whose
\* requests do not declare it
C39_Witness ==
    /\ Matched
    /\ requests # <<>>
    /\ LoadedTools # <<>>
    /\ \E i \in 1..Len(execLog) :
          \A k \in 1..Len(requests) :
              execLog[i].name \notin Range(DeclaredNames(requests[k]))

====
